---- MODULE Spec2Model ----
(***************************************************************************)
(* A model of the acme-ehr resource pipeline: the JSONL parser, the        *)
(* validator, the nested-path resolver, the field extractor, the import    *)
(* run of import_service and the two tables it writes (fhir_resources and  *)
(* import_logs).                                                           *)
(*                                                                         *)
(* Text.  A Python str is a sequence of tokens.  A token is either one of  *)
(* the characters the code looks at ("." "[" "]" "/" "-" "_" " " and the   *)
(* digits)                                                                 *)
(* or a maximal run of other characters ("code", "Observation", ...), so   *)
(* two word tokens are never adjacent and equal strings have equal token   *)
(* sequences.                                                              *)
(*                                                                         *)
(* JSON values are tagged records: Null, Num(n), Str(s), Bool(b), Map(m)   *)
(* (m a function from key strings to values) and List(l).  Python's None   *)
(* is Null.  A Python call either returns (Ret) or raises (Raise).         *)
(***************************************************************************)
EXTENDS Integers, Sequences, FiniteSets, TLC

VARIABLES
    store,      \* table fhir_resources: the committed rows, in insertion order
    logs,       \* table import_logs: the committed rows, in insertion order
    clock,      \* logical time, read by the imported_at defaults
    run,        \* run[r]: import run r (one call of import_fhir_data)
    fn_pc,      \* pure-function harness: "none", "called" or "returned"
    fn_args,    \* pure-function harness: the arguments of the call
    fn_result   \* pure-function harness: what the call returned or raised

vars == <<store, logs, clock, run, fn_pc, fn_args, fn_result>>
dbVars == <<store, logs, clock, run>>
fnVars == <<fn_pc, fn_args, fn_result>>

----------------------------------------------------------------------------
(* JSON values and Python outcomes *)

S(w) == <<w>>

Null == [t |-> "null"]
Num(n) == [t |-> "num", n |-> n]
Str(s) == [t |-> "str", s |-> s]
Bool(b) == [t |-> "bool", b |-> b]
Map(m) == [t |-> "map", m |-> m]
List(l) == [t |-> "list", l |-> l]

EmptyMap == Map(<<>>)

Ret(v) == [raised |-> FALSE, val |-> v]
Raise(e) == [raised |-> TRUE, exc |-> e]

\* Python truthiness: `not v` holds for None, False, 0, "", {} and [].
Falsy(v) ==
    \/ v.t = "null"
    \/ v.t = "bool" /\ ~v.b
    \/ v.t = "num" /\ v.n = 0
    \/ v.t = "str" /\ v.s = <<>>
    \/ v.t = "map" /\ DOMAIN v.m = {}
    \/ v.t = "list" /\ v.l = <<>>

\* dict.get(key): the value, or None when the key is absent.
DictGet(m, key) == IF key \in DOMAIN m THEN m[key] ELSE Null

\* s is a contiguous part of text t (str.__contains__).
IsSubstring(s, t) ==
    \E i \in 0..Len(t) : i + Len(s) <= Len(t) /\ SubSeq(t, i + 1, i + Len(s)) = s

\* `key in container`: membership of a str in a container; an int, a bool or
\* None is not iterable and the test raises TypeError.
PyContains(container, key) ==
    CASE container.t = "map" -> Ret(key \in DOMAIN container.m)
      [] container.t = "list" ->
            Ret(\E i \in 1..Len(container.l) : container.l[i] = Str(key))
      [] container.t = "str" -> Ret(IsSubstring(key, container.s))
      [] OTHER -> Raise("TypeError")

\* container.get(key): only a dict has the method.
PyGet(container, key) ==
    IF container.t = "map" THEN Ret(DictGet(container.m, key))
    ELSE Raise("AttributeError")

Digits == {"0", "1", "2", "3"}

DigitValue(d) == CASE d = "0" -> 0 [] d = "1" -> 1 [] d = "2" -> 2 [] d = "3" -> 3

RECURSIVE DecimalValue(_)
DecimalValue(ds) ==
    IF ds = <<>> THEN 0
    ELSE 10 * DecimalValue(SubSeq(ds, 1, Len(ds) - 1)) + DigitValue(ds[Len(ds)])

AllDigits(ds) == ds # <<>> /\ \A i \in 1..Len(ds) : ds[i] \in Digits

\* str.strip(): drop the blanks at both ends.
RECURSIVE StripText(_)
StripText(text) ==
    IF text = <<>> THEN text
    ELSE IF Head(text) = " " THEN StripText(Tail(text))
    ELSE IF text[Len(text)] = " " THEN StripText(SubSeq(text, 1, Len(text) - 1))
    ELSE text

\* int(text): blanks around an optional sign and at least one digit, else
\* ValueError.
IntLiteral(body) ==
    IF AllDigits(body) THEN Ret(DecimalValue(body))
    ELSE IF body # <<>> /\ Head(body) = "-" /\ AllDigits(Tail(body))
         THEN Ret(0 - DecimalValue(Tail(body)))
    ELSE IF body # <<>> /\ Head(body) = "+" /\ AllDigits(Tail(body))
         THEN Ret(DecimalValue(Tail(body)))
    ELSE Raise("ValueError")

PyInt(text) == IntLiteral(StripText(text))

\* str(n) for a natural number n.
DigitToken(d) == CASE d = 0 -> "0" [] d = 1 -> "1" [] d = 2 -> "2" [] d = 3 -> "3"
                   [] d = 4 -> "4" [] d = 5 -> "5" [] d = 6 -> "6" [] d = 7 -> "7"
                   [] d = 8 -> "8" [] d = 9 -> "9"

RECURSIVE DecimalText(_)
DecimalText(n) ==
    IF n < 10 THEN <<DigitToken(n)>>
    ELSE Append(DecimalText(n \div 10), DigitToken(n % 10))

\* list[idx]: a negative idx counts from the end; out of range is IndexError.
PyIndex(l, idx) ==
    IF 0 <= idx /\ idx < Len(l) THEN Ret(l[idx + 1])
    ELSE IF idx < 0 /\ 0 - idx <= Len(l) THEN Ret(l[Len(l) + idx + 1])
    ELSE Raise("IndexError")

----------------------------------------------------------------------------
(* extractor_service.get_nested_value *)

\* re.split(r'\.|\[', path): cut at every "." and "[", keeping empty parts.
RECURSIVE SplitFrom(_, _)
SplitFrom(path, acc) ==
    IF path = <<>> THEN <<acc>>
    ELSE IF Head(path) \in {".", "["} THEN <<acc>> \o SplitFrom(Tail(path), <<>>)
    ELSE SplitFrom(Tail(path), Append(acc, Head(path)))

SplitPath(path) == SplitFrom(path, <<>>)

\* A variant of IndexHandled whose except clause leaves IndexError out.
IndexHandledWithoutIndexError == {"ValueError", "TypeError"}

\* The exceptions the index branch catches and turns into `return None`.
IndexHandled == {"ValueError", "TypeError", "IndexError"}

\* current[idx] if isinstance(current, list) and idx < len(current) else None
GuardedIndex(current, idx) ==
    IF idx.raised THEN idx
    ELSE IF current.t = "list" /\ idx.val < Len(current.l)
         THEN PyIndex(current.l, idx.val)
    ELSE Ret(Null)

\* The try body of the "0]" branch: int(part[:-1]) and the guarded subscript.
IndexStep(current, part) ==
    GuardedIndex(current, PyInt(SubSeq(part, 1, Len(part) - 1)))

RECURSIVE WalkParts(_, _)

\* The except clause: a handled exception is `return None`; otherwise the loop
\* goes on with the element.
AfterIndex(step, rest) ==
    IF step.raised
    THEN IF step.exc \in IndexHandled THEN Ret(Null) ELSE step
    ELSE WalkParts(step.val, rest)

\* One iteration of the loop over the parts; Ret(Null) is `return None`.
WalkPart(current, part, rest) ==
    IF part = <<>> \/ current = Null THEN WalkParts(current, rest)
    ELSE IF part[Len(part)] = "]" THEN AfterIndex(IndexStep(current, part), rest)
    ELSE IF current.t = "map" THEN WalkParts(DictGet(current.m, part), rest)
    ELSE Ret(Null)

WalkParts(current, parts) ==
    IF parts = <<>> THEN Ret(current)
    ELSE WalkPart(current, Head(parts), Tail(parts))

get_nested_value(data, path) ==
    IF Falsy(data) \/ path = <<>> THEN Ret(Null)
    ELSE WalkParts(data, SplitPath(path))

----------------------------------------------------------------------------
(* config/validation_config.py *)

RuleTypes == {"Observation", "MedicationRequest", "Procedure", "Condition"}

\* VALIDATION_RULES[T]["required"], "all" included.
RulesRequired(T) ==
    CASE T = "all" -> <<S("id"), S("resourceType"), S("subject")>>
      [] T = "Observation" -> <<S("code"), S("status")>>
      [] T = "MedicationRequest" -> <<S("medicationCodeableConcept"), S("status")>>
      [] T = "Procedure" -> <<S("code"), S("status")>>
      [] T = "Condition" -> <<S("code")>>

\* VALIDATION_RULES[T].get("valid_status"): None (here the empty sequence,
\* with HasValidStatus false) when the type lists no status set.
HasValidStatus(T) == T \in {"Observation", "MedicationRequest", "Procedure"}

RulesValidStatus(T) ==
    CASE T = "Observation" ->
            <<S("final"), S("preliminary"), S("amended"), S("corrected")>>
      [] T = "MedicationRequest" -> <<S("completed"), S("active"), S("final")>>
      [] T = "Procedure" -> <<S("completed"), S("active"), S("final")>>
      [] OTHER -> <<>>

get_required_fields(T) ==
    RulesRequired("all") \o (IF T \in RuleTypes THEN RulesRequired(T) ELSE <<>>)

get_valid_status(T) == RulesValidStatus(T)

----------------------------------------------------------------------------
(* validator_service.validate_resource *)

\* An error string, by its parts.  prefix is the resource type the message
\* starts with ("" for the three universal fields).
\*   "Line {n}: Missing required field '{f}'"
\*   "Line {n}: {T} missing required field '{f}'"
\*   "Line {n}: Invalid status '{v}' for {T}"
MissingError(n, prefix, f) ==
    [line |-> n, kind |-> "missing", rtype |-> prefix, field |-> f, value |-> Null]
InvalidStatusError(n, T, v) ==
    [line |-> n, kind |-> "invalid_status", rtype |-> T, field |-> S("status"), value |-> v]

\* The statuses validate_resource itself lists for the two types it checks.
ObservationStatuses == <<S("final"), S("preliminary"), S("amended"), S("corrected")>>
MedicationRequestStatuses == <<S("active"), S("completed"), S("cancelled"), S("draft")>>

\* `v in [..strings..]`
InStrings(v, strings) == \E i \in 1..Len(strings) : v = Str(strings[i])

\* The loop over ["id", "resourceType", "subject"]; `field not in resource`
\* may raise.
RECURSIVE BasicChecks(_, _, _, _)

BasicCheck(resource, n, fields, errors, has) ==
    IF has.raised THEN has
    ELSE BasicChecks(resource, n, Tail(fields),
            IF has.val THEN errors
            ELSE Append(errors, MissingError(n, "", Head(fields))))

BasicChecks(resource, n, fields, errors) ==
    IF fields = <<>> THEN Ret(errors)
    ELSE BasicCheck(resource, n, fields, errors, PyContains(resource, Head(fields)))

\* status = resource.get("status") and the if/elif on it.
StatusCheck(n, T, statuses, status, errors) ==
    IF Falsy(status) THEN Append(errors, MissingError(n, T, S("status")))
    ELSE IF ~InStrings(status, statuses)
         THEN Append(errors, InvalidStatusError(n, T, status))
    ELSE errors

\* One of the two per-type branches: the required field, then status.
TypeChecks(resource, n, T, field, statuses, errors) ==
    StatusCheck(n, T, statuses, DictGet(resource.m, S("status")),
        IF field \in DOMAIN resource.m THEN errors
        ELSE Append(errors, MissingError(n, T, field)))

\* A variant of BasicFields whose loop leaves subject out.
BasicFieldsWithoutSubject == <<S("id"), S("resourceType")>>

\* The fields the first loop checks for every resource.
BasicFields == <<S("id"), S("resourceType"), S("subject")>>

\* The if/elif on resource_type.
ByType(resource, n, errors, resource_type) ==
    IF resource_type.raised THEN resource_type
    ELSE IF resource_type.val = Str(S("Observation"))
         THEN Ret(TypeChecks(resource, n, "Observation", S("code"),
                             ObservationStatuses, errors))
    ELSE IF resource_type.val = Str(S("MedicationRequest"))
         THEN Ret(TypeChecks(resource, n, "MedicationRequest",
                             S("medicationCodeableConcept"),
                             MedicationRequestStatuses, errors))
    ELSE Ret(errors)

AfterBasic(resource, n, basic) ==
    IF basic.raised THEN basic
    ELSE ByType(resource, n, basic.val, PyGet(resource, S("resourceType")))

validate_resource(resource, n) ==
    AfterBasic(resource, n, BasicChecks(resource, n, BasicFields, <<>>))

----------------------------------------------------------------------------
(* config/extraction_config.py *)

\* EXTRACTION_CONFIG in its order: field name, then "all" or the type list.
EXTRACTION_CONFIG == <<
    <<S("id"), "all">>,
    <<S("resourceType"), "all">>,
    <<S("subject"), "all">>,
    <<S("code"), "all">>,
    <<S("status"), <<S("Observation"), S("Procedure"), S("Condition"), S("MedicationRequest")>> >>,
    <<S("effectiveDateTime"), <<S("Observation")>> >>,
    <<S("valueQuantity"), <<S("Observation")>> >>,
    <<S("component"), <<S("Observation")>> >>,
    <<S("performedDateTime"), <<S("Procedure")>> >>,
    <<S("performedPeriod"), <<S("Procedure")>> >>,
    <<S("onsetDateTime"), <<S("Condition")>> >>,
    <<S("clinicalStatus"), <<S("Condition")>> >>,
    <<S("medicationCodeableConcept"), <<S("MedicationRequest")>> >>,
    <<S("dosageInstruction"), <<S("MedicationRequest")>> >>,
    <<S("authoredOn"), <<S("MedicationRequest")>> >> >>

\* A variant of AppliesTo that takes every field for every type.
AppliesToEveryType(types, resource_type) == TRUE

\* types == "all" or resource_type in types
AppliesTo(types, resource_type) ==
    IF types = "all" THEN TRUE ELSE InStrings(resource_type, types)

RECURSIVE FieldsFrom(_, _)
FieldsFrom(config, resource_type) ==
    IF config = <<>> THEN <<>>
    ELSE (IF AppliesTo(Head(config)[2], resource_type) THEN <<Head(config)[1]>> ELSE <<>>)
         \o FieldsFrom(Tail(config), resource_type)

get_extractable_fields(resource_type) == FieldsFrom(EXTRACTION_CONFIG, resource_type)

----------------------------------------------------------------------------
(* extractor_service.extract_fields_from_resource, process_resource *)

\* m with key k bound to v (dict item assignment).
DictSet(m, k, v) == [x \in DOMAIN m \cup {k} |-> IF x = k THEN v ELSE m[x]]

RECURSIVE ExtractLoop(_, _, _)

\* The else branch: the field is kept when the nested lookup finds a value.
ExtractNested(resource, fields, extracted, value) ==
    IF value.raised THEN value
    ELSE ExtractLoop(resource, Tail(fields),
            IF value.val # Null THEN DictSet(extracted, Head(fields), value.val)
            ELSE extracted)

ExtractLoop(resource, fields, extracted) ==
    IF fields = <<>> THEN Ret(Map(extracted))
    ELSE IF Head(fields) \in DOMAIN resource.m
         THEN ExtractLoop(resource, Tail(fields),
                          DictSet(extracted, Head(fields), resource.m[Head(fields)]))
    ELSE ExtractNested(resource, fields, extracted,
                       get_nested_value(resource, Head(fields)))

extract_fields_from_resource(resource) ==
    IF resource.t # "map" THEN Ret(EmptyMap)
    ELSE IF Falsy(DictGet(resource.m, S("resourceType"))) THEN Ret(EmptyMap)
    ELSE ExtractLoop(resource,
                     get_extractable_fields(DictGet(resource.m, S("resourceType"))), <<>>)

\* text.split('/')[-1]: what follows the last "/".
RECURSIVE LastSegment(_)
LastSegment(text) ==
    IF text = <<>> THEN <<>>
    ELSE IF text[Len(text)] = "/" THEN <<>>
    ELSE Append(LastSegment(SubSeq(text, 1, Len(text) - 1)), text[Len(text)])

\* value.split('/')[-1]: only a str has split.
PySplitLast(value) ==
    IF value.t = "str" THEN Ret(Str(LastSegment(value.s))) ELSE Raise("AttributeError")

\* str.lower() on one token.
LowerToken(w) ==
    CASE w = "Observation" -> "observation"
      [] w = "MedicationRequest" -> "medicationrequest"
      [] w = "Procedure" -> "procedure"
      [] w = "Condition" -> "condition"
      [] w = "Patient" -> "patient"
      [] OTHER -> w

\* value.lower(): only a str has lower.
PyLower(value) ==
    IF value.t = "str" THEN Ret(Str([i \in 1..Len(value.s) |-> LowerToken(value.s[i])]))
    ELSE Raise("AttributeError")

\* The warning dict of process_resource, by its parts.
MissingFieldWarning(n, field) == Map(
    (<<"line", "_", "number">> :> Num(n)) @@ (S("field") :> Str(field)))

\* subject_ref.split('/')[-1] when '/' in subject_ref.
SplitIfSlash(subject_ref, slash) ==
    IF slash.raised THEN slash
    ELSE IF slash.val THEN PySplitLast(subject_ref)
    ELSE Ret(Null)

\* patient_id: the tail of subject_ref when it is truthy and holds a "/".
PatientId(subject_ref) ==
    IF Falsy(subject_ref) THEN Ret(Null)
    ELSE SplitIfSlash(subject_ref, PyContains(subject_ref, S("/")))

\* A variant of WarningByType that warns about every medication request.
WarningByTypeAlways(lowered, extracted, n) ==
    IF lowered.raised THEN lowered
    ELSE IF lowered.val = Str(S("observation"))
         THEN Ret(IF S("effectiveDateTime") \in DOMAIN extracted.m THEN Null
                  ELSE MissingFieldWarning(n, S("effectiveDateTime")))
    ELSE IF lowered.val = Str(S("medicationrequest"))
         THEN Ret(MissingFieldWarning(n, S("authoredOn")))
    ELSE Ret(Null)

\* The if/elif on resource_type_lower.
WarningByType(lowered, extracted, n) ==
    IF lowered.raised THEN lowered
    ELSE IF lowered.val = Str(S("observation"))
         THEN Ret(IF S("effectiveDateTime") \in DOMAIN extracted.m THEN Null
                  ELSE MissingFieldWarning(n, S("effectiveDateTime")))
    ELSE IF lowered.val = Str(S("medicationrequest"))
         THEN Ret(IF S("authoredOn") \in DOMAIN extracted.m THEN Null
                  ELSE MissingFieldWarning(n, S("authoredOn")))
    ELSE Ret(Null)

\* missing_field_warning: resource_type.lower() if resource_type else ''.
WarningFor(resource_type, extracted, n) ==
    WarningByType(IF Falsy(resource_type) THEN Ret(Str(<<>>)) ELSE PyLower(resource_type),
                  extracted, n)

\* parsed_json.get('id', f'unknown-{line_number}')
ResourceId(parsed_json, n) ==
    IF S("id") \in DOMAIN parsed_json.m THEN parsed_json.m[S("id")]
    ELSE Str(<<"unknown", "-">> \o DecimalText(n))

\* subject_ref: from the extracted subject when it is a dict, else by path.
SubjectRef(parsed_json, subject) ==
    IF subject.t = "map" THEN Ret(DictGet(subject.m, S("reference")))
    ELSE get_nested_value(parsed_json, <<"subject", ".", "reference">>)

\* The dict process_resource returns.
Processed(parsed_json, n, extracted, subject_ref, patient, warning) ==
    IF patient.raised THEN patient
    ELSE IF warning.raised THEN warning
    ELSE Ret([extracted_fields |-> extracted,
              resource_type |-> DictGet(parsed_json.m, S("resourceType")),
              resource_id |-> ResourceId(parsed_json, n),
              patient_id |-> patient.val,
              subject_reference |-> subject_ref,
              missing_field_warning |-> warning.val])

WithSubjectRef(parsed_json, n, extracted, ref) ==
    IF ref.raised THEN ref
    ELSE Processed(parsed_json, n, extracted, ref.val, PatientId(ref.val),
                   WarningFor(DictGet(parsed_json.m, S("resourceType")), extracted, n))

WithExtracted(parsed_json, n, fields) ==
    IF fields.raised THEN fields
    ELSE WithSubjectRef(parsed_json, n, fields.val,
                        SubjectRef(parsed_json, DictGet(fields.val.m, S("subject"))))

\* parsed_json is a dict here: validate_resource raised on anything else.
process_resource(parsed_json, n) ==
    WithExtracted(parsed_json, n, extract_fields_from_resource(parsed_json))

----------------------------------------------------------------------------
(* import_service.project_fields (api_routes.project_fields is the same code) *)

\* A dict the code builds key by key: its items in insertion order.
Projected(items) == [t |-> "map", items |-> items]

\* projected[k] = v: an existing key keeps its place.
SetItem(items, k, v) ==
    IF \E i \in 1..Len(items) : items[i][1] = k
    THEN [i \in 1..Len(items) |-> IF items[i][1] = k THEN <<k, v>> ELSE items[i]]
    ELSE Append(items, <<k, v>>)

\* A variant of Include that keeps a field only when a value was found.
IncludeFoundOnly(resource_data, field, value, projected) ==
    IF value # Null THEN SetItem(projected, field, value) ELSE projected

\* if value is not None or field in resource_data:
\*     projected[field] = value if value is not None else resource_data.get(field)
Include(resource_data, field, value, projected) ==
    IF value # Null \/ field \in DOMAIN resource_data.m
    THEN SetItem(projected, field,
                 IF value # Null THEN value ELSE DictGet(resource_data.m, field))
    ELSE projected

\* if value is None and field in resource_data: value = resource_data[field]
DirectAccess(resource_data, field, value) ==
    IF value = Null /\ field \in DOMAIN resource_data.m
    THEN resource_data.m[field]
    ELSE value

RECURSIVE ProjectLoop(_, _, _)

\* The body of the loop for a field that is not blank.
ProjectField(resource_data, field, rest, projected, value) ==
    IF value.raised THEN value
    ELSE ProjectLoop(resource_data, rest,
            Include(resource_data, field,
                    DirectAccess(resource_data, field, value.val), projected))

\* field = field.strip(); if not field: continue
Stripped(resource_data, field, rest, projected) ==
    IF field = <<>> THEN ProjectLoop(resource_data, rest, projected)
    ELSE ProjectField(resource_data, field, rest, projected,
                      get_nested_value(resource_data, field))

ProjectLoop(resource_data, fields, projected) ==
    IF fields = <<>> THEN Ret(Projected(projected))
    ELSE Stripped(resource_data, StripText(Head(fields)), Tail(fields), projected)

\* `not fields_list`: the list is None or empty.
NoFields(fields_list) == fields_list = Null \/ fields_list = List(<<>>)

\* A variant of EarlyReturn that returns a new empty dict in both cases.
EarlyReturnEmpty(resource_data, fields_list) == Ret(Projected(<<>>))

\* return resource_data if not fields_list else {}
EarlyReturn(resource_data, fields_list) ==
    IF NoFields(fields_list) THEN Ret(resource_data) ELSE Ret(Projected(<<>>))

project_fields(resource_data, fields_list) ==
    IF NoFields(fields_list) \/ Falsy(resource_data)
    THEN EarlyReturn(resource_data, fields_list)
    ELSE IF resource_data.t # "map" THEN Ret(Projected(<<>>))
    ELSE ProjectLoop(resource_data, fields_list.l, <<>>)

----------------------------------------------------------------------------
(* transformer_service.flatten_field, extract_and_rename, apply_transformations *)

\* text.split(sep): the pieces between the separators, empty ones included.
RECURSIVE SplitOn(_, _, _)
SplitOn(text, sep, acc) ==
    IF text = <<>> THEN <<acc>>
    ELSE IF Head(text) = sep THEN <<acc>> \o SplitOn(Tail(text), sep, <<>>)
    ELSE SplitOn(Tail(text), sep, Append(acc, Head(text)))

PySplit(text, sep) == SplitOn(text, sep, <<>>)

\* text.rstrip(']')
RECURSIVE RStripBracket(_)
RStripBracket(text) ==
    IF text # <<>> /\ text[Len(text)] = "]"
    THEN RStripBracket(SubSeq(text, 1, Len(text) - 1))
    ELSE text

\* f"{parent_key}_{k}"
Prefixed(parent_key, k) == parent_key \o <<"_">> \o k

\* result after the loop `result[f"{parent_key}_{k}"] = v` over current and
\* the `del result[parent_key]`.
Promote(result, parent_key, current) ==
    [key \in (DOMAIN result \cup {Prefixed(parent_key, k) : k \in DOMAIN current})
                \ {parent_key} |->
        IF \E k \in DOMAIN current : Prefixed(parent_key, k) = key
        THEN current[CHOOSE k \in DOMAIN current : Prefixed(parent_key, k) = key]
        ELSE result[key]]

\* if isinstance(current, dict): ...; return result
FlattenInto(result, parent_key, current) ==
    IF current.t = "map" THEN Ret(Map(Promote(result, parent_key, current.m)))
    ELSE Ret(Map(result))

\* idx = int(...), then
\* current.get(key, [])[idx] if isinstance(current.get(key), list)
\*                              and idx < len(current.get(key, [])) else None
\* int raises ValueError, .get on anything but a dict AttributeError and the
\* subscript IndexError; nothing catches them.
Subscript(current, key, idx) ==
    IF idx.raised THEN idx
    ELSE IF current.t # "map" THEN Raise("AttributeError")
    ELSE IF DictGet(current.m, key).t = "list" /\ idx.val < Len(DictGet(current.m, key).l)
         THEN PyIndex(DictGet(current.m, key).l, idx.val)
    ELSE Ret(Null)

\* The "coding[0]" branch: part.split('[')[0] and part.split('[')[1].rstrip(']').
IndexedPart(current, part) ==
    Subscript(current, PySplit(part, "[")[1], PyInt(RStripBracket(PySplit(part, "[")[2])))

RECURSIVE FlattenWalk(_, _, _, _)

FlattenAfterIndex(result, parent_key, step, rest) ==
    IF step.raised THEN step
    ELSE FlattenWalk(result, parent_key, step.val, rest)

\* The loop over the parts and what follows it.
FlattenWalk(result, parent_key, current, parts) ==
    IF parts = <<>> THEN FlattenInto(result, parent_key, current)
    ELSE IF Falsy(current) THEN Ret(Map(result))
    ELSE IF \E i \in 1..Len(Head(parts)) : Head(parts)[i] = "["
         THEN FlattenAfterIndex(result, parent_key,
                                IndexedPart(current, Head(parts)), Tail(parts))
    ELSE FlattenWalk(result, parent_key,
                     IF current.t = "map" THEN DictGet(current.m, Head(parts)) ELSE Null,
                     Tail(parts))

\* result is the copy of obj the code changes; obj itself is only read.
flatten_field(obj, field_path) ==
    IF obj.t # "map" THEN Ret(obj)
    ELSE FlattenWalk(obj.m, Head(PySplit(field_path, ".")), obj, PySplit(field_path, "."))

extract_and_rename(obj, field_path, new_name) ==
    Ret(Map(new_name :> get_nested_value(obj, field_path).val))

\* k.startswith(prefix)
PyStartsWith(k, prefix) ==
    Len(k) >= Len(prefix) /\ SubSeq(k, 1, Len(prefix)) = prefix

\* for k, v in flattened.items():
\*     if k.startswith(f"{prefix}_"): transformed[k] = v
CopyPrefixed(transformed, flattened, prefix) ==
    IF flattened.raised THEN flattened
    ELSE Ret([k \in DOMAIN transformed
                     \cup {x \in DOMAIN flattened.val.m : PyStartsWith(x, prefix \o <<"_">>)} |->
                IF k \in DOMAIN flattened.val.m /\ PyStartsWith(k, prefix \o <<"_">>)
                THEN flattened.val.m[k]
                ELSE transformed[k]])

\* dict.update(other)
DictUpdate(m, other) ==
    [k \in DOMAIN m \cup DOMAIN other |-> IF k \in DOMAIN other THEN other[k] ELSE m[k]]

\* A variant of NewName that takes the first segment of the field when the
\* rule has no "as".
NewNameFirstSegment(rule, field) ==
    IF S("as") \in DOMAIN rule.m THEN rule.m[S("as")].s
    ELSE Head(PySplit(field, "."))

\* rule.get("as", field.split('.')[-1]); the "as" of a rule is a str.
NewName(rule, field) ==
    IF S("as") \in DOMAIN rule.m THEN rule.m[S("as")].s
    ELSE PySplit(field, ".")[Len(PySplit(field, "."))]

\* The flatten branch: the rule reads the original resource.
FlattenRule(resource, transformed, field) ==
    CopyPrefixed(transformed, flatten_field(resource, field), Head(PySplit(field, ".")))

\* A variant of ExtractRule that reads the working copy first.
ExtractRuleChained(resource, transformed, rule, field) ==
    Ret(DictUpdate(transformed,
                   extract_and_rename(Map(DictUpdate(resource.m, transformed)), field,
                                      NewName(rule, field)).val.m))

\* The extract branch: the rule reads the original resource.
ExtractRule(resource, transformed, rule, field) ==
    Ret(DictUpdate(transformed,
                   extract_and_rename(resource, field, NewName(rule, field)).val.m))

\* The if/elif on action; a truthy field that is no str has no split.
ByAction(resource, transformed, rule, action, field) ==
    IF action = Str(S("flatten")) /\ ~Falsy(field)
    THEN IF field.t # "str" THEN Raise("AttributeError")
         ELSE FlattenRule(resource, transformed, field.s)
    ELSE IF action = Str(S("extract")) /\ ~Falsy(field)
    THEN IF field.t # "str" THEN Raise("AttributeError")
         ELSE ExtractRule(resource, transformed, rule, field.s)
    ELSE Ret(transformed)

\* One rule on the working copy: rule.get("action"), rule.get("field").
ApplyRule(resource, transformed, rule) ==
    IF rule.t # "map" THEN Raise("AttributeError")
    ELSE ByAction(resource, transformed, rule,
                  DictGet(rule.m, S("action")), DictGet(rule.m, S("field")))

RECURSIVE ApplyRules(_, _, _)

AfterRule(resource, rest, step) ==
    IF step.raised THEN step ELSE ApplyRules(resource, rest, step.val)

\* The loop over the transformations for one resource.
ApplyRules(resource, rules, transformed) ==
    IF rules = <<>> THEN Ret(Map(transformed))
    ELSE AfterRule(resource, Tail(rules), ApplyRule(resource, transformed, Head(rules)))

\* transformed = {"id": resource.get("id"), "resourceType": ...}
BaseFields(resource) ==
    (S("id") :> DictGet(resource.m, S("id"))) @@
    (S("resourceType") :> DictGet(resource.m, S("resourceType")))

\* The body of the loop over the resources.
TransformOne(resource, rules) ==
    IF resource.t # "map" THEN Raise("AttributeError")
    ELSE ApplyRules(resource, rules, BaseFields(resource))

RECURSIVE TransformAll(_, _, _)

AfterResource(rest, rules, result, one) ==
    IF one.raised THEN one ELSE TransformAll(rest, rules, Append(result, one.val))

TransformAll(resources, rules, result) ==
    IF resources = <<>> THEN Ret(List(result))
    ELSE AfterResource(Tail(resources), rules, result, TransformOne(Head(resources), rules))

apply_transformations(resources, transformations) ==
    TransformAll(resources, transformations, <<>>)

----------------------------------------------------------------------------
(* parser_service.parse_jsonl_file *)

\* An input line, by what json.loads makes of it: blank (only white space),
\* malformed (JSONDecodeError) or the JSON value it holds.
BlankLine == [kind |-> "blank"]
MalformedLine == [kind |-> "malformed"]
JsonLine(v) == [kind |-> "json", value |-> v]

\* file_content.strip(): the white space at both ends goes, and with it the
\* blank lines before the first and after the last line that holds text.
RECURSIVE StripContent(_)
StripContent(lines) ==
    IF lines = <<>> THEN lines
    ELSE IF Head(lines) = BlankLine THEN StripContent(Tail(lines))
    ELSE IF lines[Len(lines)] = BlankLine THEN StripContent(SubSeq(lines, 1, Len(lines) - 1))
    ELSE lines

\* One yielded tuple (line_number, parsed_json, error).
Yield(n, parsed, error) == [line_number |-> n, parsed_json |-> parsed, parse_error |-> error]

\* f"Invalid JSON: {e}"
InvalidJson == Str(<<"Invalid JSON", ":", "e">>)

\* The body of the for loop over enumerate(...split('\n')), from index i.
RECURSIVE ParseFrom(_, _)
ParseFrom(lines, i) ==
    IF i > Len(lines) THEN <<>>
    ELSE (CASE lines[i].kind = "blank" -> <<>>
            [] lines[i].kind = "malformed" -> <<Yield(i, Null, InvalidJson)>>
            [] lines[i].kind = "json" -> <<Yield(i, lines[i].value, Null)>>)
         \o ParseFrom(lines, i + 1)

parse_jsonl_file(file_content) == ParseFrom(StripContent(file_content), 1)

----------------------------------------------------------------------------
(* import_service.import_fhir_data: the loop over the parsed lines *)

\* The locals set up before the loop.
InitialLocals == [
    total_lines |-> 0,
    successful |-> 0,
    failed |-> 0,
    validation_errors |-> <<>>,
    resource_type_counts |-> <<>>,
    unique_patients |-> {},
    missing_optional_fields |-> <<>>,
    resources_to_save |-> <<>>]

ParseErrorEntry(n, error) == [line_number |-> n, error |-> error, type |-> "parse_error"]
ValidationErrorEntry(n, errors) == [line_number |-> n, errors |-> errors, type |-> "validation_error"]
ProcessingErrorEntry(n, exc) == [line_number |-> n, error |-> exc, type |-> "processing_error"]

\* defaultdict(int)[key] += 1
CountUp(counts, key) ==
    DictSet(counts, key, (IF key \in DOMAIN counts THEN counts[key] ELSE 0) + 1)

\* defaultdict(list)[key].append(w); the dict keeps its keys in insertion
\* order, so it is a sequence of <<key, list>> pairs.
AppendUnder(groups, key, w) ==
    IF \E i \in 1..Len(groups) : groups[i][1] = key
    THEN [i \in 1..Len(groups) |->
            IF groups[i][1] = key THEN <<key, Append(groups[i][2], w)>> ELSE groups[i]]
    ELSE Append(groups, <<key, <<w>> >>)

\* A variant of Accumulate that keeps the patient id as the row's reference.
AccumulatePatientId(L, parsed_json, processed) ==
    [L EXCEPT
        !.resource_type_counts = CountUp(@, processed.resource_type),
        !.unique_patients =
            IF Falsy(processed.patient_id) THEN @ ELSE @ \cup {processed.patient_id},
        !.missing_optional_fields =
            IF Falsy(processed.missing_field_warning) THEN @
            ELSE AppendUnder(@, processed.resource_type, processed.missing_field_warning),
        !.resources_to_save = Append(@, [
            resource_type |-> processed.resource_type,
            subject_reference |-> processed.patient_id,
            raw_data |-> parsed_json,
            extracted_fields |-> processed.extracted_fields]),
        !.successful = @ + 1]

\* The try block of one iteration, after process_resource returned.
Accumulate(L, parsed_json, processed) ==
    [L EXCEPT
        !.resource_type_counts = CountUp(@, processed.resource_type),
        !.unique_patients =
            IF Falsy(processed.patient_id) THEN @ ELSE @ \cup {processed.patient_id},
        !.missing_optional_fields =
            IF Falsy(processed.missing_field_warning) THEN @
            ELSE AppendUnder(@, processed.resource_type, processed.missing_field_warning),
        !.resources_to_save = Append(@, [
            resource_type |-> processed.resource_type,
            subject_reference |-> processed.subject_reference,
            raw_data |-> parsed_json,
            extracted_fields |-> processed.extracted_fields]),
        !.successful = @ + 1]

\* A variant of Failed that appends the entry and leaves the counter alone.
FailedUncounted(L, entry) ==
    [L EXCEPT !.validation_errors = Append(@, entry)]

\* failed += 1; validation_errors.append(entry); continue
Failed(L, entry) ==
    [L EXCEPT !.failed = @ + 1, !.validation_errors = Append(@, entry)]

\* The try/except around process_resource: what it raises is recorded as a
\* processing_error of the line.
\* resource_type_counts[resource_type] += 1 is the first statement to change
\* a local: a list or a dict cannot be a key (TypeError).
TryProcess(L, y, processed) ==
    IF processed.raised
    THEN Ret(Failed(L, ProcessingErrorEntry(y.line_number, processed.exc)))
    ELSE IF processed.val.resource_type.t \in {"list", "map"}
         THEN Ret(Failed(L, ProcessingErrorEntry(y.line_number, "TypeError")))
    ELSE Ret(Accumulate(L, y.parsed_json, processed.val))

\* validate_resource is called outside the try block, so what it raises
\* leaves import_fhir_data.
AfterValidate(L, y, checked) ==
    IF checked.raised THEN checked
    ELSE IF checked.val # <<>>
         THEN Ret(Failed(L, ValidationErrorEntry(y.line_number, checked.val)))
    ELSE TryProcess(L, y, process_resource(y.parsed_json, y.line_number))

\* A variant of Counted that records a null line as a failure.
CountedNullFails(L, y) ==
    IF ~Falsy(y.parse_error)
    THEN Ret(Failed(L, ParseErrorEntry(y.line_number, y.parse_error)))
    ELSE IF y.parsed_json = Null
         THEN Ret(Failed(L, ValidationErrorEntry(y.line_number, <<>>)))
    ELSE AfterValidate(L, y, validate_resource(y.parsed_json, y.line_number))

\* The body of the loop after total_lines += 1.
Counted(L, y) ==
    IF ~Falsy(y.parse_error)
    THEN Ret(Failed(L, ParseErrorEntry(y.line_number, y.parse_error)))
    ELSE IF y.parsed_json = Null THEN Ret(L)
    ELSE AfterValidate(L, y, validate_resource(y.parsed_json, y.line_number))

\* One iteration of the loop on the locals L.
ImportLine(L, y) == Counted([L EXCEPT !.total_lines = @ + 1], y)

RECURSIVE ImportLoop(_, _)

NextLine(yields, step) ==
    IF step.raised THEN step ELSE ImportLoop(Tail(yields), step.val)

\* The for loop: the locals after the last line, or the exception that left it.
ImportLoop(yields, L) ==
    IF yields = <<>> THEN Ret(L)
    ELSE NextLine(yields, ImportLine(L, Head(yields)))

\* The sets left when k members are taken out of s.
RECURSIVE Without(_, _)
Without(s, k) == IF k = 0 THEN {s} ELSE UNION {Without(s \ {x}, k - 1) : x \in s}

\* [:100]
ReferenceLimit == 100

\* A variant of FirstHundred without the limit.
FirstHundredUnlimited(s) == {s}

\* list(unique_patients)[:100]: the list of a set is in the order of the
\* hashes, which differs from one interpreter to the next, so the slice is
\* any 100 members when the set has more.  The order inside the slice is left
\* out: the slice is one of these sets.
FirstHundred(s) ==
    IF Cardinality(s) <= ReferenceLimit THEN {s}
    ELSE Without(s, Cardinality(s) - ReferenceLimit)

\* statistics, built after the batch is saved; refs is the slice of the list.
Statistics(L, refs) == [
    resource_types |-> L.resource_type_counts,
    unique_patients |-> Cardinality(L.unique_patients),
    unique_patient_references |-> refs]

\* all_warnings: the lists of missing_optional_fields, one type after another.
RECURSIVE AllWarnings(_)
AllWarnings(groups) ==
    IF groups = <<>> THEN <<>> ELSE Head(groups)[2] \o AllWarnings(Tail(groups))

----------------------------------------------------------------------------
(* routes/api_routes.import_fhir_data: the loop of the route handler, which
   does the work of process_resource inline.  The locals have the names of
   import_service; resources_to_save holds the rows given to session.add. *)

\* session.add(FHIRResource(...)); successful += 1
RouteAdd(L, parsed_json, extracted, resource_type, subject_ref) ==
    [L EXCEPT
        !.resources_to_save = Append(@, [
            resource_type |-> resource_type,
            subject_reference |-> subject_ref,
            raw_data |-> parsed_json,
            extracted_fields |-> extracted]),
        !.successful = @ + 1]

\* The if/elif on resource_type_lower: what resource_type.lower() raises is
\* caught after the count and the patient were recorded.
RouteWarn(L, y, extracted, resource_type, subject_ref, warning) ==
    IF warning.raised
    THEN Ret(Failed(L, ProcessingErrorEntry(y.line_number, warning.exc)))
    ELSE Ret(RouteAdd(
            [L EXCEPT !.missing_optional_fields =
                IF Falsy(warning.val) THEN @
                ELSE AppendUnder(@, resource_type, warning.val)],
            y.parsed_json, extracted, resource_type, subject_ref))

\* if subject_ref: if '/' in subject_ref: unique_patients.add(...)
RoutePatient(L, y, extracted, resource_type, subject_ref, patient) ==
    IF patient.raised
    THEN Ret(Failed(L, ProcessingErrorEntry(y.line_number, patient.exc)))
    ELSE RouteWarn(
            [L EXCEPT !.unique_patients =
                IF Falsy(patient.val) THEN @ ELSE @ \cup {patient.val}],
            y, extracted, resource_type, subject_ref,
            WarningFor(resource_type, extracted, y.line_number))

\* resource_type_counts[resource_type] += 1, then
\* subject_ref = extracted_fields.get('subject_reference').
RouteCount(L, y, extracted, resource_type) ==
    IF resource_type.t \in {"list", "map"}
    THEN Ret(Failed(L, ProcessingErrorEntry(y.line_number, "TypeError")))
    ELSE RoutePatient(
            [L EXCEPT !.resource_type_counts = CountUp(@, resource_type)],
            y, extracted, resource_type,
            DictGet(extracted.m, <<"subject", "_", "reference">>),
            PatientId(DictGet(extracted.m, <<"subject", "_", "reference">>)))

\* The inner try block of one line.
RouteTry(L, y, extracted) ==
    IF extracted.raised
    THEN Ret(Failed(L, ProcessingErrorEntry(y.line_number, extracted.exc)))
    ELSE RouteCount(L, y, extracted.val, DictGet(y.parsed_json.m, S("resourceType")))

\* validate_resource is called outside the inner try block: what it raises
\* ends the loop.
RouteValidated(L, y, checked) ==
    IF checked.raised THEN checked
    ELSE IF checked.val # <<>>
         THEN Ret(Failed(L, ValidationErrorEntry(y.line_number, checked.val)))
    ELSE RouteTry(L, y, extract_fields_from_resource(y.parsed_json))

\* One iteration of the loop of the route.
RouteLine(L, y) ==
    IF ~Falsy(y.parse_error)
    THEN Ret(Failed([L EXCEPT !.total_lines = @ + 1],
                    ParseErrorEntry(y.line_number, y.parse_error)))
    ELSE IF y.parsed_json = Null THEN Ret([L EXCEPT !.total_lines = @ + 1])
    ELSE RouteValidated([L EXCEPT !.total_lines = @ + 1], y,
                        validate_resource(y.parsed_json, y.line_number))

RECURSIVE RouteLoop(_, _)

RouteNext(yields, step) ==
    IF step.raised THEN step ELSE RouteLoop(Tail(yields), step.val)

\* The for loop of the route: the locals after the last line, or the
\* exception that the outer except turns into the 500 response.
RouteLoop(yields, L) ==
    IF yields = <<>> THEN Ret(L)
    ELSE RouteNext(yields, RouteLine(L, Head(yields)))

----------------------------------------------------------------------------
(* resource_service.save_resources_batch, create_import_log *)

\* A value sqlite can bind to a String column.
Bindable(v) == v.t \in {"null", "str", "num", "bool"}

\* The INSERT of one row raises: resource_type is NOT NULL (IntegrityError),
\* and a dict or a list cannot be bound to a String column (InterfaceError).
InsertRaises(resource) ==
    \/ resource.resource_type = Null
    \/ ~Bindable(resource.resource_type)
    \/ ~Bindable(resource.subject_reference)

\* The row FHIRResource(...) becomes: the integer primary key and the
\* imported_at default are filled in at the INSERT.  by is the run that wrote
\* the row (history, not a column).
NewRow(resource, pk, now, by) == [
    id |-> pk,
    resource_type |-> resource.resource_type,
    subject_reference |-> resource.subject_reference,
    raw_data |-> resource.raw_data,
    extracted_fields |-> resource.extracted_fields,
    imported_at |-> now,
    by |-> by]

\* session.commit() flushes the added objects in order inside one
\* transaction.  failAt = i makes the storage fail at the i-th INSERT
\* (0: the storage does not fail).  The result holds the rows written inside
\* the transaction so far.
RECURSIVE Flush(_, _, _, _, _, _)
Flush(resources, i, txn, failAt, base, ctx) ==
    IF i > Len(resources) THEN [raised |-> FALSE, exc |-> "", txn |-> txn]
    ELSE IF failAt = i THEN [raised |-> TRUE, exc |-> "OperationalError", txn |-> txn]
    ELSE IF InsertRaises(resources[i])
         THEN [raised |-> TRUE, exc |-> "IntegrityError", txn |-> txn]
    ELSE Flush(resources, i + 1,
               Append(txn, NewRow(resources[i], base + i, ctx.now, ctx.by)),
               failAt, base, ctx)

\* A variant of CommitOrRollback without the rollback: the rows written before
\* the exception stay in the table.
CommitWithoutRollback(rows, flushed) ==
    [raised |-> flushed.raised, exc |-> flushed.exc, rows |-> rows \o flushed.txn]

\* What the table holds after save_resources_batch: on an exception the
\* session rolls back and the exception is raised again.
CommitOrRollback(rows, flushed) ==
    IF flushed.raised THEN [raised |-> TRUE, exc |-> flushed.exc, rows |-> rows]
    ELSE [raised |-> FALSE, exc |-> "", rows |-> rows \o flushed.txn]

save_resources_batch(rows, resources, failAt, ctx) ==
    CommitOrRollback(rows, Flush(resources, 1, <<>>, failAt, Len(rows), ctx))

\* errors if errors else None
ErrorsOrNone(errors) == IF errors = <<>> THEN Null ELSE List(errors)

\* The ImportLog row create_import_log adds: the integer primary key and the
\* imported_at default are filled in at the INSERT.
NewLog(args, pk, now, by) == [
    id |-> pk,
    imported_at |-> now,
    total_lines |-> args.total_lines,
    successful |-> args.successful,
    failed |-> args.failed,
    errors |-> IF Falsy(args.errors) THEN Null ELSE args.errors,
    statistics |-> args.statistics,
    by |-> by]

\* What import_logs holds after create_import_log, and the row it returns.
\* fail: the storage fails at the commit; nothing handles the exception.
AddLog(rows, log, fail) ==
    IF fail THEN [raised |-> TRUE, exc |-> "OperationalError", rows |-> rows, log |-> log]
    ELSE [raised |-> FALSE, exc |-> "", rows |-> Append(rows, log), log |-> log]

create_import_log(rows, args, fail, ctx) ==
    AddLog(rows, NewLog(args, Len(rows) + 1, ctx.now, ctx.by), fail)

----------------------------------------------------------------------------
(* analytics_service.get_validation_error_summary, get_missing_fields_statistics *)

\* .limit(10)
RecentLimit == 10
\* most_common(5)
TopMissing == 5

\* The position of the row with the latest imported_at among the positions.
Latest(rows, among) ==
    CHOOSE i \in among : \A j \in among : rows[j].imported_at <= rows[i].imported_at

\* A variant of OrderedDesc that takes the rows in the order of the table.
OrderedAsc(rows, among, n) ==
    [k \in 1..(IF Cardinality(among) < n THEN Cardinality(among) ELSE n) |-> rows[k]]

\* order_by(imported_at.desc()).limit(n) over the rows at the given positions.
RECURSIVE OrderedDesc(_, _, _)
OrderedDesc(rows, among, n) ==
    IF n = 0 \/ among = {} THEN <<>>
    ELSE <<rows[Latest(rows, among)]>>
         \o OrderedDesc(rows, among \ {Latest(rows, among)}, n - 1)

\* The keys in the order of their first occurrence.
FirstOccurrences(keys) ==
    SelectSeq([i \in 1..Len(keys) |->
                  [key |-> keys[i], first |-> \A j \in 1..i - 1 : keys[j] # keys[i]]],
              LAMBDA x : x.first)

\* The Counter after counter[key] += 1 for each of the keys in turn: a dict,
\* so the keys are in the order of their first count.
Counter(keys) ==
    [k \in 1..Len(FirstOccurrences(keys)) |->
        <<FirstOccurrences(keys)[k].key,
          Cardinality({i \in 1..Len(keys) : keys[i] = FirstOccurrences(keys)[k].key})>>]

\* error.get('type') or error.get('error_type') or 'unknown': the entries
\* import_fhir_data writes all have a type.
ErrorType(error) == IF error.type # "" THEN error.type ELSE "unknown"

\* The errors the loop over the logs goes through, in order.
RECURSIVE ErrorsOf(_)
ErrorsOf(recent) ==
    IF recent = <<>> THEN <<>>
    ELSE (IF Falsy(Head(recent).errors) THEN <<>> ELSE Head(recent).errors.l)
         \o ErrorsOf(Tail(recent))

\* The dict the function returns; without logs it is the same with zeros.
ErrorSummary(recent, errors) == [
    total_validation_errors |-> Len(errors),
    errors_by_type |-> Counter([i \in 1..Len(errors) |-> ErrorType(errors[i])]),
    recent_imports |-> Len(recent)]

SummaryOf(recent) == ErrorSummary(recent, ErrorsOf(recent))

get_validation_error_summary(rows) ==
    SummaryOf(OrderedDesc(rows, 1..Len(rows), RecentLimit))

\* if field not in extracted or extracted.get(field) is None
IsMissing(extracted, field) ==
    field \notin DOMAIN extracted \/ extracted[field] = Null

\* The fields one turn of the loop over the resources counts, in the order
\* of expected_fields.
MissingOf(extracted, fields) ==
    SelectSeq(fields, LAMBDA field : IsMissing(extracted, field))

\* resource.extracted_fields or {}
ExtractedOrEmpty(extracted) == IF Falsy(extracted) THEN <<>> ELSE extracted.m

\* The fields the turns lo..hi of the loop over the resources count, in
\* order; the resources are taken in the order the query returns them, the
\* order of the table.  The turns are split in halves to keep the evaluation
\* shallow.
RECURSIVE OverResources(_, _, _)
OverResources(resources, lo, hi) ==
    IF lo > hi THEN <<>>
    ELSE IF lo = hi
    THEN MissingOf(ExtractedOrEmpty(resources[lo].extracted_fields),
                   get_extractable_fields(resources[lo].resource_type))
    ELSE OverResources(resources, lo, (lo + hi) \div 2)
         \o OverResources(resources, (lo + hi) \div 2 + 1, hi)

\* The first position of the counter with the largest count.
FirstLargest(counter) ==
    CHOOSE i \in 1..Len(counter) :
        /\ \A j \in 1..Len(counter) : counter[j][2] <= counter[i][2]
        /\ \A j \in 1..i - 1 : counter[j][2] < counter[i][2]

Remove(seq, i) == SubSeq(seq, 1, i - 1) \o SubSeq(seq, i + 1, Len(seq))

\* A variant of MostCommon that keeps the order of the counter.
RECURSIVE Uncommon(_, _)
Uncommon(counter, n) ==
    IF n = 0 \/ counter = <<>> THEN <<>>
    ELSE <<Head(counter)>> \o Uncommon(Tail(counter), n - 1)

\* Counter.most_common(n): the n largest counts, largest first, equal counts
\* in the order of the counter.
RECURSIVE MostCommon(_, _)
MostCommon(counter, n) ==
    IF n = 0 \/ counter = <<>> THEN <<>>
    ELSE <<counter[FirstLargest(counter)]>>
         \o MostCommon(Remove(counter, FirstLargest(counter)), n - 1)

get_missing_fields_statistics(rows) == MostCommon(Counter(OverResources(rows, 1, Len(rows))), TopMissing)

----------------------------------------------------------------------------
(* import_service.import_fhir_data as a process *)

Runs == {1, 2}

\* The most lines all runs together read.
MaxTotalLines == 3

Text(w) == Str(S(w))
Subject(p) == Map(S("reference") :> Str(<<"Patient", "/", p>>))

\* A valid observation without effectiveDateTime.
ObservationA == Map(
    (S("id") :> Text("a")) @@ (S("resourceType") :> Text("Observation")) @@
    (S("subject") :> Subject("P1")) @@ (S("code") :> Map(S("text") :> Text("bp"))) @@
    (S("status") :> Text("final")))
\* Another record with the same id; its subject has no reference.
ConditionA == Map(
    (S("id") :> Text("a")) @@ (S("resourceType") :> Text("Condition")) @@
    (S("subject") :> Map(S("display") :> Text("Bo"))))
\* No subject: a validation error.
NoSubject == Map(
    (S("id") :> Text("b")) @@ (S("resourceType") :> Text("Observation")) @@
    (S("code") :> Map(S("text") :> Text("bp"))) @@ (S("status") :> Text("final")))
\* resourceType is null: passes validate_resource.
NullType == Map(
    (S("id") :> Text("c")) @@ (S("resourceType") :> Null) @@ (S("subject") :> Subject("P1")))
\* resourceType is a number: passes validate_resource, process_resource raises.
NumberType == Map(
    (S("id") :> Text("d")) @@ (S("resourceType") :> Num(5)) @@ (S("subject") :> Subject("P1")))

\* A valid record whose subject is a text, not a mapping.
SubjectText == Map(
    (S("id") :> Text("g")) @@ (S("resourceType") :> Text("Procedure")) @@
    (S("subject") :> Str(<<"Patient", "/", "P4">>)))

LineKinds == {
    BlankLine, MalformedLine, JsonLine(Null), JsonLine(Num(5)),
    JsonLine(ObservationA), JsonLine(ConditionA), JsonLine(NoSubject),
    JsonLine(NullType), JsonLine(NumberType)}

Contents(n) == UNION {[1..k -> LineKinds] : k \in 0..n}

\* Five lines, the third malformed and the fourth invalid.
FiveLines == <<JsonLine(ObservationA), JsonLine(ConditionA), MalformedLine,
               JsonLine(NoSubject), JsonLine(ObservationA)>>

RECURSIVE SumLines(_, _)
SumLines(rs, rn) ==
    IF rs = {} THEN 0
    ELSE LET r == CHOOSE x \in rs : TRUE IN Len(rn[r].content) + SumLines(rs \ {r}, rn)

LinesLeft == MaxTotalLines - SumLines(Runs, run)

\* The inputs a run may be given: any lines within what is left of
\* MaxTotalLines, and FiveLines when no run has read a line yet.
Inputs ==
    Contents(IF LinesLeft < 0 THEN 0 ELSE LinesLeft)
    \cup (IF LinesLeft = MaxTotalLines THEN {FiveLines} ELSE {})

Pending == [pending |-> TRUE]

IdleRun == [pc |-> "idle", content |-> <<>>, L |-> InitialLocals,
            stage |-> "none", outcome |-> Pending]

\* The call starts and the loop runs over every parsed line (lines 67-143).
\* An exception that leaves the loop leaves import_fhir_data.
AfterLoop(r, content, loop) ==
    run' = [run EXCEPT ![r] =
              IF loop.raised
              THEN [@ EXCEPT !.pc = "failed", !.content = content,
                             !.stage = "loop", !.outcome = Raise(loop.exc)]
              ELSE [@ EXCEPT !.pc = "save", !.content = content, !.L = loop.val]]

RunLoop(r) ==
    /\ run[r].pc = "idle"
    /\ \E content \in Inputs :
          AfterLoop(r, content, ImportLoop(parse_jsonl_file(content), InitialLocals))
    /\ UNCHANGED <<store, logs, clock, fnVars>>

\* A variant of AfterSave that swallows the exception of the save and goes on
\* to write the log.
AfterSaveSwallowed(r, saved) ==
    /\ store' = saved.rows
    /\ clock' = IF saved.raised THEN clock ELSE clock + 1
    /\ run' = [run EXCEPT ![r] = [@ EXCEPT !.pc = "log"]]

\* if resources_to_save: save_resources_batch(resources_to_save)
\* The exception of save_resources_batch leaves import_fhir_data.
AfterSave(r, saved) ==
    /\ store' = saved.rows
    /\ clock' = IF saved.raised THEN clock ELSE clock + 1
    /\ run' = [run EXCEPT ![r] =
                  IF saved.raised
                  THEN [@ EXCEPT !.pc = "failed", !.stage = "save",
                                 !.outcome = Raise(saved.exc)]
                  ELSE [@ EXCEPT !.pc = "log"]]

SaveBatch(r) ==
    /\ run[r].pc = "save"
    /\ IF run[r].L.resources_to_save = <<>>
       THEN /\ run' = [run EXCEPT ![r].pc = "log"]
            /\ UNCHANGED <<store, clock>>
       ELSE \E failAt \in 0..Len(run[r].L.resources_to_save) :
              AfterSave(r, save_resources_batch(store, run[r].L.resources_to_save,
                                                failAt, [now |-> clock, by |-> r]))
    /\ UNCHANGED <<logs, fnVars>>

\* The arguments import_fhir_data passes to create_import_log.
LogArgs(L, refs) == [
    total_lines |-> L.total_lines,
    successful |-> L.successful,
    failed |-> L.failed,
    errors |-> ErrorsOrNone(L.validation_errors),
    statistics |-> Statistics(L, refs)]

\* The dict import_fhir_data returns.
Summary(L, log, refs) == [
    total_lines |-> L.total_lines,
    successful_imports |-> L.successful,
    failed_imports |-> L.failed,
    validation_errors |-> L.validation_errors,
    statistics |-> Statistics(L, refs),
    warnings |-> AllWarnings(L.missing_optional_fields),
    import_log_id |-> log.id,
    imported_at |-> log.imported_at]

\* statistics, warnings, create_import_log(...) and the return (lines 149-180).
\* The exception of create_import_log leaves import_fhir_data.
AfterLog(r, made, refs) ==
    /\ logs' = made.rows
    /\ clock' = IF made.raised THEN clock ELSE clock + 1
    /\ run' = [run EXCEPT ![r] =
                  IF made.raised
                  THEN [@ EXCEPT !.pc = "failed", !.stage = "log",
                                 !.outcome = Raise(made.exc)]
                  ELSE [@ EXCEPT !.pc = "done",
                                 !.outcome = Ret(Summary(run[r].L, made.log, refs))]]

WriteLog(r) ==
    /\ run[r].pc = "log"
    /\ \E fail \in BOOLEAN : \E refs \in FirstHundred(run[r].L.unique_patients) :
          AfterLog(r, create_import_log(logs, LogArgs(run[r].L, refs), fail,
                                        [now |-> clock, by |-> r]), refs)
    /\ UNCHANGED <<store, fnVars>>

Init ==
    /\ store = <<>>
    /\ logs = <<>>
    /\ clock = 1
    /\ run = [r \in Runs |-> IdleRun]
    /\ fn_pc = "none"
    /\ fn_args = Null
    /\ fn_result = Ret(Null)

Next == \E r \in Runs : RunLoop(r) \/ SaveBatch(r) \/ WriteLog(r)

Spec == Init /\ [][Next]_vars

----------------------------------------------------------------------------
(* Claims about the import run, checked under Spec *)

\* The rows of fhir_resources that run r wrote.
RowsBy(r) == SelectSeq(store, LAMBDA row : row.by = r)
LogsBy(r) == SelectSeq(logs, LAMBDA log : log.by = r)

\* The record identifier of a stored row.
RowKey(row) == DictGet(row.raw_data.m, S("id"))

\* The batch of run r is in the table.
Committed(r) ==
    /\ run[r].L.resources_to_save # <<>>
    /\ \/ run[r].pc \in {"log", "done"}
       \/ run[r].pc = "failed" /\ run[r].stage = "log"

\* C1: no single input line aborts a run: a run fails only when the storage
\* fails, never in the loop over the lines and never because of a record; and
\* past the loop every parsed line is counted and every failure is in the
\* error list.
C1_NoLineAbortsRun ==
    \A r \in Runs :
        /\ run[r].pc = "failed" => run[r].outcome.exc = "OperationalError"
        /\ run[r].pc \in {"save", "log", "done"} =>
              /\ run[r].L.total_lines = Len(parse_jsonl_file(run[r].content))
              /\ run[r].L.failed = Len(run[r].L.validation_errors)

\* C2: the batch write is atomic: in every state the table holds all rows of
\* a run's batch, in order, or none of them; it holds none before the save
\* and after a save that raised, and then the run has failed as a whole.
C2_BatchAtomic ==
    \A r \in Runs :
        /\ RowsBy(r) = <<>> \/ Len(RowsBy(r)) = Len(run[r].L.resources_to_save)
        /\ \A i \in 1..Len(RowsBy(r)) :
              RowsBy(r)[i].raw_data = run[r].L.resources_to_save[i].raw_data
        /\ Committed(r) => RowsBy(r) # <<>>
        /\ run[r].pc = "failed" /\ run[r].stage = "save" =>
              RowsBy(r) = <<>> /\ run[r].outcome.raised /\ LogsBy(r) = <<>>

\* C2 witness: a batch of two records whose second INSERT raised.
C2_Witness ==
    \E r \in Runs :
        /\ run[r].pc = "failed" /\ run[r].stage = "save"
        /\ Len(run[r].L.resources_to_save) = 2
        /\ ~InsertRaises(run[r].L.resources_to_save[1])
        /\ store = <<>>

\* C3: last-write-wins upsert: the table holds at most one row per record
\* identifier.
C3_OneRowPerIdentifier ==
    \A i, j \in 1..Len(store) : RowKey(store[i]) = RowKey(store[j]) => i = j

\* The lines of a content that json.loads parses to null.
HasNullLine(content) == \E i \in 1..Len(content) : content[i] = JsonLine(Null)

CountLines(content, P(_)) == Cardinality({i \in 1..Len(content) : P(content[i])})
CountEntries(errors, type) == Cardinality({i \in 1..Len(errors) : errors[i].type = type})

Invalid(line) ==
    /\ line.kind = "json"
    /\ line.value # Null
    /\ validate_resource(line.value, 1).val # <<>>

\* C4: the summary of a run none of whose lines parses to null: total_lines
\* is the number of non-blank lines, successful + failed = total_lines, the
\* error list has `failed` entries in ascending line order, one parse_error
\* per malformed line and one validation_error per invalid record.
C4_SummaryCounts ==
    \A r \in Runs :
        run[r].pc = "done" /\ ~HasNullLine(run[r].content) =>
            LET sum == run[r].outcome.val
                errors == sum.validation_errors IN
            /\ sum.total_lines = CountLines(run[r].content, LAMBDA l : l.kind # "blank")
            /\ sum.successful_imports + sum.failed_imports = sum.total_lines
            /\ Len(errors) = sum.failed_imports
            /\ \A i \in 1..Len(errors) - 1 : errors[i].line_number < errors[i + 1].line_number
            /\ CountEntries(errors, "parse_error")
                  = CountLines(run[r].content, LAMBDA l : l.kind = "malformed")
            /\ CountEntries(errors, "validation_error") = CountLines(run[r].content, Invalid)

\* C4 witness: the five-line input has been imported.
C4_Witness ==
    \E r \in Runs :
        /\ run[r].pc = "done"
        /\ run[r].content = FiveLines
        /\ run[r].outcome.val.total_lines = 5
        /\ run[r].outcome.val.successful_imports = 3
        /\ run[r].outcome.val.failed_imports = 2
        /\ run[r].outcome.val.validation_errors[1].type = "parse_error"
        /\ run[r].outcome.val.validation_errors[2].type = "validation_error"

\* What holds of the logs in every state: a run has one log when it is done
\* and none otherwise, and its log was written after all its lines were
\* processed and its batch was in the table.
LogPerCompletedRun ==
    /\ \A r \in Runs :
          /\ Len(LogsBy(r)) = IF run[r].pc = "done" THEN 1 ELSE 0
          /\ \A i \in 1..Len(LogsBy(r)) :
                /\ LogsBy(r)[i].total_lines = Len(parse_jsonl_file(run[r].content))
                /\ LogsBy(r)[i].successful = Len(RowsBy(r))
                /\ Len(RowsBy(r)) = Len(run[r].L.resources_to_save)
    /\ Len(logs) = Cardinality({r \in Runs : run[r].pc = "done"})

\* A step keeps every log that was there, unchanged.
LogsOnlyAppended ==
    /\ Len(logs') >= Len(logs)
    /\ \A i \in 1..Len(logs) : logs'[i] = logs[i]

\* C5: a completed run appends exactly one ImportLog, after its lines were
\* processed and its batch committed; a run whose commit failed appends none;
\* no step changes or removes an earlier log.
C5_OneLogPerCompletedRun == [](LogPerCompletedRun) /\ [][LogsOnlyAppended]_vars

\* C5 witness: one run is done and logged, the other failed at its commit.
C5_Witness ==
    \E r, q \in Runs :
        /\ run[r].pc = "done"
        /\ run[q].pc = "failed" /\ run[q].stage = "save"
        /\ Len(logs) = 1

\* C6: when two runs have both committed a record with identifier X, the
\* table holds exactly one row for X, that of the run that committed last.
C6_LastCommitWins ==
    \A r, q \in Runs :
        r # q /\ Committed(r) /\ Committed(q) =>
            \A i \in 1..Len(RowsBy(r)) : \A j \in 1..Len(RowsBy(q)) :
                RowKey(RowsBy(r)[i]) = RowKey(RowsBy(q)[j]) =>
                    /\ Cardinality({k \in 1..Len(store) :
                                       RowKey(store[k]) = RowKey(RowsBy(r)[i])}) = 1

----------------------------------------------------------------------------
(* Calls of the pure functions.  The tables and the runs stay as Init leaves
   them; fn_args holds the arguments and fn_result the outcome. *)

DbIdle ==
    /\ store = <<>>
    /\ logs = <<>>
    /\ clock = 1
    /\ run = [r \in Runs |-> IdleRun]

\* A dict from a set of <<key, value>> pairs with distinct keys.
MapOf(pairs) ==
    Map([k \in {p[1] : p \in pairs} |-> (CHOOSE p \in pairs : p[1] = k)[2]])

\* The largest line number a call is given.
MaxLineNumber == 2

\* Each field of a record is absent or takes one of a few values.
Optional(key, values) == {{}} \cup {{<<key, v>>} : v \in values}

StatusValues == {
    Text("final"), Text("active"), Text("completed"), Text("draft"),
    Text("cancelled"), Text("bogus"), Str(<<>>), Null}

TypeValues == {
    Text("Observation"), Text("MedicationRequest"), Text("Procedure"),
    Text("Condition"), Text("Patient"), Null}

ValidateRecords == {
    MapOf(i \cup t \cup s \cup c \cup m \cup st) :
        i \in Optional(S("id"), {Text("a")}),
        t \in Optional(S("resourceType"), TypeValues),
        s \in Optional(S("subject"), {Subject("P1")}),
        c \in Optional(S("code"), {Map(S("text") :> Text("bp"))}),
        m \in Optional(S("medicationCodeableConcept"), {Map(S("text") :> Text("rx"))}),
        st \in Optional(S("status"), StatusValues)}

\* What a line can parse to besides an object.
NonObjects == {Num(5), Num(0), Bool(TRUE), Text("id"), Str(<<>>), List(<<>>),
               List(<<Text("id")>>)}

InitValidate ==
    /\ DbIdle
    /\ fn_pc = "called"
    /\ fn_args \in [resource : ValidateRecords \cup NonObjects, line_number : 1..MaxLineNumber]
    /\ fn_result = Ret(Null)

CallValidate ==
    /\ fn_pc = "called"
    /\ fn_result' = validate_resource(fn_args.resource, fn_args.line_number)
    /\ fn_pc' = "returned"
    /\ UNCHANGED <<dbVars, fn_args>>

SpecValidate == InitValidate /\ [][CallValidate]_vars

\* The most pieces a path is put together from.
MaxPieces == 3

PathPieces == {
    <<"a">>, <<"b">>, <<".">>, <<".", "b">>, <<".", ".", "b">>,
    <<"[", "0", "]">>, <<"[", "1", "]">>, <<"[", "-", "1", "]">>,
    <<"[", "x", "]">>, <<"[", "0">>, <<"]">>}

RECURSIVE Concat(_)
Concat(pieces) == IF pieces = <<>> THEN <<>> ELSE Head(pieces) \o Concat(Tail(pieces))

Paths == {Concat(ps) : ps \in UNION {[1..k -> PathPieces] : k \in 0..MaxPieces}}

NestedData == Map(
    (S("a") :> Map((S("b") :> Num(1)) @@ (S("0") :> Num(5)))) @@
    (S("b") :> List(<<Num(7), Map(S("b") :> Num(2))>>)))
FlatData == Map((S("a") :> Num(3)) @@ (S("b") :> Null))
ListData == Map((S("a") :> List(<<>>)) @@ (S("b") :> List(<<Text("x")>>)))

PathData == {NestedData, FlatData, ListData, EmptyMap, Null, Num(5), Text("a"),
             List(<<Map(S("a") :> Num(1))>>)}

InitPath ==
    /\ DbIdle
    /\ fn_pc = "called"
    /\ fn_args \in [data : PathData, path : Paths]
    /\ fn_result = Ret(Null)

CallPath ==
    /\ fn_pc = "called"
    /\ fn_result' = get_nested_value(fn_args.data, fn_args.path)
    /\ fn_pc' = "returned"
    /\ UNCHANGED <<dbVars, fn_args>>

SpecPath == InitPath /\ [][CallPath]_vars

\* A subject with both members.
SubjectFull == Map((S("reference") :> Str(<<"Patient", "/", "P1">>)) @@
                   (S("display") :> Text("Ann")))

ExtractRecords == {
    MapOf(t \cup s \cup c \cup st \cup p \cup e \cup x) :
        t \in Optional(S("resourceType"),
                       {Text("Observation"), Text("Procedure"), Text("Patient"), Null, Num(5)}),
        s \in Optional(S("subject"), {SubjectFull, Str(<<"Patient", "/", "P1">>), Null}),
        c \in Optional(S("code"), {Map(S("text") :> Text("bp")), Null}),
        st \in Optional(S("status"), {Text("final")}),
        p \in Optional(S("performedDateTime"), {Text("d")}),
        e \in Optional(S("effectiveDateTime"), {Text("d")}),
        x \in Optional(S("note"), {Text("n")})}

InitExtract ==
    /\ DbIdle
    /\ fn_pc = "called"
    /\ fn_args \in [resource : ExtractRecords \cup NonObjects]
    /\ fn_result = Ret(Null)

CallExtract ==
    /\ fn_pc = "called"
    /\ fn_result' = extract_fields_from_resource(fn_args.resource)
    /\ fn_pc' = "returned"
    /\ UNCHANGED <<dbVars, fn_args>>

SpecExtract == InitExtract /\ [][CallExtract]_vars

\* The most fields a projection asks for.
MaxFields == 3

FieldNames == {
    <<"code", ".", "text">>, <<" ", "code", ".", "text", " ">>, <<"code">>,
    <<"note">>, <<"zero">>, <<"missing">>, <<"a", ".", "b">>, <<" ">>, <<>>}

FieldLists ==
    {Null} \cup {List(fs) : fs \in UNION {[1..k -> FieldNames] : k \in 0..MaxFields}}

\* code.text resolves by path, note is an explicit null, zero is falsy and
\* "a.b" is a top-level key that no path reaches.
ProjectRecord == Map(
    (S("code") :> Map(S("text") :> Text("x"))) @@ (S("note") :> Null) @@
    (S("zero") :> Num(0)) @@ (<<"a", ".", "b">> :> Text("lit")))
\* "code.text" is a top-level key and a path as well.
ProjectBoth == Map(
    (S("code") :> Map(S("text") :> Text("x"))) @@ (<<"code", ".", "text">> :> Text("lit")))

\* {"code": {"text": "x"}}
CodeOnly == Map(S("code") :> Map(S("text") :> Text("x")))

ProjectData == {ProjectRecord, ProjectBoth, CodeOnly, EmptyMap, Null, Num(5),
                List(<<Text("x")>>)}

InitProject ==
    /\ DbIdle
    /\ fn_pc = "called"
    /\ fn_args \in [resource_data : ProjectData, fields_list : FieldLists]
    /\ fn_result = Ret(Null)

CallProject ==
    /\ fn_pc = "called"
    /\ fn_result' = project_fields(fn_args.resource_data, fn_args.fields_list)
    /\ fn_pc' = "returned"
    /\ UNCHANGED <<dbVars, fn_args>>

SpecProject == InitProject /\ [][CallProject]_vars

\* The most resources and the most rules a transformation is given.
MaxResources == 2
MaxRules == 2

\* {"system": "s", "code": "c"}
Coding == Map((S("system") :> Text("s")) @@ (S("code") :> Text("c")))
\* {"code": {"coding": [{"system": "s", "code": "c"}]}}
FlattenExample == Map(S("code") :> Map(S("coding") :> List(<<Coding>>)))
\* {"valueQuantity": {"value": 120}}
ValueOnly == Map(S("valueQuantity") :> Map(S("value") :> Num(120)))
\* A resource as fetch_resources hands it over: extracted fields, id, resourceType.
Coded == Map(
    (S("id") :> Num(1)) @@ (S("resourceType") :> Text("Observation")) @@
    (S("code") :> Map(S("coding") :> List(<<Coding>>))) @@
    (S("valueQuantity") :> Map(S("value") :> Num(120))))
\* A resource with a key "code_x" of its own and a code that is no mapping.
WithCodeX == Map(
    (S("id") :> Num(2)) @@ (S("resourceType") :> Text("Condition")) @@
    (S("code") :> Text("c")) @@ (<<"code", "_", "x">> :> Num(9)))
\* A resource whose coding list is empty.
EmptyCoding == Map(
    (S("id") :> Num(3)) @@ (S("resourceType") :> Text("Procedure")) @@
    (S("code") :> Map(S("coding") :> List(<<>>))))

TransformPaths == {
    <<"code", ".", "coding", "[", "0", "]">>,
    <<"code", ".", "coding", "[", "1", "]">>,
    <<"code", ".", "coding", "[", "-", "1", "]">>,
    <<"code", ".", "coding", "[", "x", "]">>,
    <<"code", ".", "coding", "[", "0">>,
    <<"code", ".", "coding", "[", "0", "]", ".", "system">>,
    <<"code", ".", "coding">>,
    <<"code">>,
    <<"code", "_", "system">>,
    <<"valueQuantity">>,
    <<"valueQuantity", ".", "value">>,
    <<"valueQuantity", ".", "unit">>,
    <<"valueQuantity", ".", "value", ".", "x", "[", "0", "]">>,
    <<"missing">>,
    <<"id">>,
    <<>>}

Rule(action, field) == Map((S("action") :> Text(action)) @@ (S("field") :> Str(field)))
RuleAs(action, field, as) == Map(
    (S("action") :> Text(action)) @@ (S("field") :> Str(field)) @@ (S("as") :> Text(as)))

TransformRules == {
    Rule("flatten", <<"code", ".", "coding", "[", "0", "]">>),
    Rule("flatten", <<"code", ".", "coding", "[", "x", "]">>),
    Rule("flatten", <<"code", ".", "missing">>),
    Rule("flatten", <<"valueQuantity">>),
    Rule("extract", <<"code", "_", "system">>),
    Rule("extract", <<"code", ".", "coding", "[", "0", "]", ".", "system">>),
    RuleAs("extract", <<"valueQuantity", ".", "value">>, "value"),
    RuleAs("extract", <<"valueQuantity", ".", "unit">>, "value"),
    Rule("rename", <<"code">>),
    Map(S("action") :> Text("flatten"))}

TransformObjects == {FlattenExample, ValueOnly, Coded, WithCodeX, EmptyCoding, EmptyMap,
                     List(<<Coding>>)}

FlattenCalls ==
    [fn : {"flatten_field"}, obj : TransformObjects, field_path : TransformPaths]
ExtractCalls ==
    [fn : {"extract_and_rename"}, obj : TransformObjects, field_path : TransformPaths,
     new_name : {S("value"), S("code")}]
ApplyCalls ==
    [fn : {"apply_transformations"},
     resources : UNION {[1..k -> {Coded, WithCodeX, EmptyCoding, ValueOnly}] :
                           k \in 0..MaxResources},
     transformations : UNION {[1..k -> TransformRules] : k \in 0..MaxRules}]

InitTransform ==
    /\ DbIdle
    /\ fn_pc = "called"
    /\ fn_args \in FlattenCalls \cup ExtractCalls \cup ApplyCalls
    /\ fn_result = Ret(Null)

CallFlatten ==
    /\ fn_pc = "called"
    /\ fn_args.fn = "flatten_field"
    /\ fn_result' = flatten_field(fn_args.obj, fn_args.field_path)
    /\ fn_pc' = "returned"
    /\ UNCHANGED <<dbVars, fn_args>>

CallExtractAndRename ==
    /\ fn_pc = "called"
    /\ fn_args.fn = "extract_and_rename"
    /\ fn_result' = extract_and_rename(fn_args.obj, fn_args.field_path, fn_args.new_name)
    /\ fn_pc' = "returned"
    /\ UNCHANGED <<dbVars, fn_args>>

CallApply ==
    /\ fn_pc = "called"
    /\ fn_args.fn = "apply_transformations"
    /\ fn_result' = apply_transformations(fn_args.resources, fn_args.transformations)
    /\ fn_pc' = "returned"
    /\ UNCHANGED <<dbVars, fn_args>>

SpecTransform ==
    InitTransform /\ [][CallFlatten \/ CallExtractAndRename \/ CallApply]_vars

----------------------------------------------------------------------------
(* Calls of the parser, of the loop of import_fhir_data and of the statistics
   it builds, on inputs richer than those of the runs above. *)

\* The most lines of one input.
MaxLines == 2
\* The most patients of one run.
MaxPatients == 101

\* A valid observation but for its id.
NoId == Map(
    (S("resourceType") :> Text("Observation")) @@ (S("subject") :> Subject("P1")) @@
    (S("code") :> Map(S("text") :> Text("bp"))) @@ (S("status") :> Text("final")))
\* A valid observation with effectiveDateTime.
ObservationDated == Map(
    (S("id") :> Text("e")) @@ (S("resourceType") :> Text("Observation")) @@
    (S("subject") :> Subject("P2")) @@ (S("code") :> Map(S("text") :> Text("bp"))) @@
    (S("status") :> Text("final")) @@ (S("effectiveDateTime") :> Text("2024")))
\* The same with resourceType in lower case: no type check applies to it.
LowerObservation == Map(
    (S("id") :> Text("f")) @@ (S("resourceType") :> Text("observation")) @@
    (S("subject") :> Subject("P2")) @@ (S("effectiveDateTime") :> Text("2024")))
\* A valid medication request without and with authoredOn.
MedicationA == Map(
    (S("id") :> Text("m")) @@ (S("resourceType") :> Text("MedicationRequest")) @@
    (S("subject") :> Subject("P1")) @@
    (S("medicationCodeableConcept") :> Map(S("text") :> Text("rx"))) @@
    (S("status") :> Text("active")))
MedicationDated == Map(
    (S("id") :> Text("n")) @@ (S("resourceType") :> Text("MedicationRequest")) @@
    (S("subject") :> Subject("P3")) @@
    (S("medicationCodeableConcept") :> Map(S("text") :> Text("rx"))) @@
    (S("status") :> Text("active")) @@ (S("authoredOn") :> Text("2024")))

\* resourceType is an empty list: passes validation, cannot be counted.
ListType == Map(
    (S("id") :> Text("h")) @@ (S("resourceType") :> List(<<>>)) @@
    (S("subject") :> Subject("P1")))

ImportLineKinds == {
    BlankLine, MalformedLine, JsonLine(Null), JsonLine(EmptyMap), JsonLine(Num(5)),
    JsonLine(ObservationA), JsonLine(ObservationDated), JsonLine(LowerObservation),
    JsonLine(MedicationA), JsonLine(MedicationDated), JsonLine(ConditionA),
    JsonLine(NoId), JsonLine(NoSubject), JsonLine(NumberType), JsonLine(ListType),
    JsonLine(SubjectText)}

ImportContents == UNION {[1..k -> ImportLineKinds] : k \in 0..MaxLines}

\* The patient ids "1", "2", ... of a run with k patients.
PatientSets == {{Str(DecimalText(i)) : i \in 1..k} : k \in 0..MaxPatients}

ParseCalls == [fn : {"parse_jsonl_file"}, content : ImportContents]
ImportCalls == [fn : {"import_fhir_data"}, content : ImportContents]
RouteCalls == [fn : {"route"}, content : ImportContents]
StatisticsCalls == [fn : {"statistics"}, unique_patients : PatientSets]

InitImport ==
    /\ DbIdle
    /\ fn_pc = "called"
    /\ fn_args \in ParseCalls \cup ImportCalls \cup RouteCalls \cup StatisticsCalls
    /\ fn_result = Ret(Null)

\* list(parse_jsonl_file(content))
CallParse ==
    /\ fn_pc = "called" /\ fn_args.fn = "parse_jsonl_file"
    /\ fn_pc' = "returned"
    /\ fn_result' = Ret(parse_jsonl_file(fn_args.content))
    /\ UNCHANGED <<dbVars, fn_args>>

\* What import_fhir_data has in hand when it calls create_import_log: the
\* locals after the loop, the statistics and the warnings.
Prepared(L, refs) == [
    locals |-> L,
    statistics |-> Statistics(L, refs),
    warnings |-> AllWarnings(L.missing_optional_fields)]

AfterImportLoop(loop) ==
    IF loop.raised THEN fn_result' = loop
    ELSE \E refs \in FirstHundred(loop.val.unique_patients) :
            fn_result' = Ret(Prepared(loop.val, refs))

\* import_fhir_data up to the call of create_import_log, the storage left out.
CallImport ==
    /\ fn_pc = "called" /\ fn_args.fn = "import_fhir_data"
    /\ fn_pc' = "returned"
    /\ AfterImportLoop(ImportLoop(parse_jsonl_file(fn_args.content), InitialLocals))
    /\ UNCHANGED <<dbVars, fn_args>>

\* The route handler up to the ImportLog, the storage left out.
CallRoute ==
    /\ fn_pc = "called" /\ fn_args.fn = "route"
    /\ fn_pc' = "returned"
    /\ AfterImportLoop(RouteLoop(parse_jsonl_file(fn_args.content), InitialLocals))
    /\ UNCHANGED <<dbVars, fn_args>>

\* The statistics of a run that found the given patients.
CallStatistics ==
    /\ fn_pc = "called" /\ fn_args.fn = "statistics"
    /\ fn_pc' = "returned"
    /\ \E refs \in FirstHundred(fn_args.unique_patients) :
          fn_result' = Ret(Statistics(
              [InitialLocals EXCEPT !.unique_patients = fn_args.unique_patients], refs))
    /\ UNCHANGED <<dbVars, fn_args>>

SpecImport ==
    InitImport /\ [][CallParse \/ CallImport \/ CallRoute \/ CallStatistics]_vars

----------------------------------------------------------------------------
(* The analytics queries over the tables import runs leave *)

\* The most import logs.
MaxLogs == 11
\* The most rows of a small corpus.
MaxRows == 3

\* An observation whose effectiveDateTime is null.
ObservationNullDate == Map(
    (S("id") :> Text("g")) @@ (S("resourceType") :> Text("Observation")) @@
    (S("subject") :> Subject("P1")) @@ (S("code") :> Map(S("text") :> Text("bp"))) @@
    (S("status") :> Text("final")) @@ (S("effectiveDateTime") :> Null))

RECURSIVE Repeat(_, _)
Repeat(x, n) == IF n = 0 THEN <<>> ELSE <<x>> \o Repeat(x, n - 1)

CorpusKinds == {
    JsonLine(ObservationA), JsonLine(ObservationDated), JsonLine(ObservationNullDate),
    JsonLine(ConditionA), JsonLine(MedicationA)}

\* An observation whose code is null and that has no effectiveDateTime.
ObservationNullCode == Map(
    (S("id") :> Text("c")) @@ (S("resourceType") :> Text("Observation")) @@
    (S("subject") :> Subject("P1")) @@ (S("code") :> Null) @@
    (S("status") :> Text("final")))

\* The files whose import fills resources: up to MaxRows records of any kind,
\* and 45 observations without effectiveDateTime, alone or with one other
\* record before or after them.
CorpusContents ==
    UNION {[1..k -> CorpusKinds] : k \in 0..MaxRows}
    \cup {Repeat(JsonLine(ObservationA), 45), Repeat(JsonLine(ObservationNullCode), 45),
          Repeat(JsonLine(ObservationA), 45) \o <<JsonLine(ConditionA)>>,
          <<JsonLine(ConditionA)>> \o Repeat(JsonLine(ObservationA), 45)}

\* What import_fhir_data hands to save_resources_batch for one valid record.
Saved(line) ==
    ImportLoop(parse_jsonl_file(<<line>>), InitialLocals).val.resources_to_save[1]

\* What resources holds after the import of a file of valid records.
Corpus(content) ==
    save_resources_batch(<<>>, [i \in 1..Len(content) |-> Saved(content[i])],
                         0, [now |-> 1, by |-> 1]).rows

\* The files of the import runs before a summary: nothing but blank lines,
\* or two lines that fail in different ways.  Neither stores a row.
FailedContents == {<<BlankLine>>, <<MalformedLine, JsonLine(NoId)>>}

AnalyticsCalls ==
    [fn : {"get_validation_error_summary"}, content : {<<>>}]
    \cup [fn : {"get_missing_fields_statistics"}, content : CorpusContents]

InitAnalytics ==
    /\ fn_args \in AnalyticsCalls
    /\ store = Corpus(fn_args.content)
    /\ logs = <<>>
    /\ clock = 1
    /\ run = [r \in Runs |-> IdleRun]
    /\ fn_pc = "called"
    /\ fn_result = Ret(Null)

\* What an import run without a successful line leaves: its ImportLog.
AfterFailedRun(made) ==
    /\ logs' = made.rows
    /\ clock' = IF made.raised THEN clock ELSE clock + 1

\* One whole import run, before the summary is asked for.
FailedRun ==
    /\ fn_pc = "called" /\ fn_args.fn = "get_validation_error_summary"
    /\ Len(logs) < MaxLogs
    /\ \E content \in FailedContents : \E fail \in BOOLEAN :
          AfterFailedRun(create_import_log(logs,
              LogArgs(ImportLoop(parse_jsonl_file(content), InitialLocals).val, {}),
              fail, [now |-> clock, by |-> 1]))
    /\ UNCHANGED <<store, run, fn_pc, fn_args, fn_result>>

CallSummary ==
    /\ fn_pc = "called" /\ fn_args.fn = "get_validation_error_summary"
    /\ fn_pc' = "returned"
    /\ fn_result' = Ret(get_validation_error_summary(logs))
    /\ UNCHANGED <<dbVars, fn_args>>

CallMissing ==
    /\ fn_pc = "called" /\ fn_args.fn = "get_missing_fields_statistics"
    /\ fn_pc' = "returned"
    /\ fn_result' = Ret(get_missing_fields_statistics(store))
    /\ UNCHANGED <<dbVars, fn_args>>

SpecAnalytics == InitAnalytics /\ [][FailedRun \/ CallSummary \/ CallMissing]_vars

----------------------------------------------------------------------------
(* Claims about validate_resource, checked under SpecValidate *)

Returned == fn_pc = "returned"

\* The call was given a JSON object.
OnRecord == Returned /\ fn_args.resource.t = "map"

Has(f) == S(f) \in DOMAIN fn_args.resource.m
Field(f) == DictGet(fn_args.resource.m, S(f))

\* The call was given a record of resource type T.
OnType(T) == OnRecord /\ Field("resourceType") = Text(T)

\* How many of the returned errors report the field f as missing.
MissingErrors(f) ==
    Cardinality({i \in 1..Len(fn_result.val) :
                    fn_result.val[i].kind = "missing" /\ fn_result.val[i].field = S(f)})

\* The returned errors that report an invalid status.
StatusErrors ==
    {fn_result.val[i] : i \in {k \in 1..Len(fn_result.val) :
                                  fn_result.val[k].kind = "invalid_status"}}

\* C7 as claimed: a record without resourceType gets exactly one error, the
\* one for the missing resourceType.
C7_OnlyResourceTypeError ==
    OnRecord /\ ~Has("resourceType") =>
        fn_result = Ret(<<MissingError(fn_args.line_number, "", S("resourceType"))>>)

\* C7 as amended: a record without resourceType gets the error for the
\* missing resourceType once, one error more for each of id and subject that
\* is absent, and nothing else: no check that depends on the type is made.
C7_UniversalErrorsOnly ==
    OnRecord /\ ~Has("resourceType") =>
        /\ ~fn_result.raised
        /\ MissingErrors("resourceType") = 1
        /\ \A f \in {"id", "subject"} : MissingErrors(f) = IF Has(f) THEN 0 ELSE 1
        /\ \A i \in 1..Len(fn_result.val) :
              fn_result.val[i] \in
                 {MissingError(fn_args.line_number, "", S(f)) :
                     f \in {"id", "resourceType", "subject"}}

\* C7 witness: a record with a status and neither resourceType nor subject
\* got its two errors.
C7_Witness ==
    /\ OnRecord
    /\ ~Has("resourceType") /\ ~Has("subject") /\ Has("id") /\ Has("status")
    /\ Len(fn_result.val) = 2

\* The fields a sequence lists.
Listed(fields) == {fields[i] : i \in 1..Len(fields)}

\* C8: a record of a type of VALIDATION_RULES gets exactly one error for
\* each field of get_required_fields(T) that it lacks.
C8_RequiredFieldsFromConfig ==
    \A T \in RuleTypes :
        OnType(T) =>
            /\ ~fn_result.raised
            /\ \A f \in Listed(get_required_fields(T)) :
                  f \notin DOMAIN fn_args.resource.m =>
                     Cardinality({i \in 1..Len(fn_result.val) :
                                     /\ fn_result.val[i].kind = "missing"
                                     /\ fn_result.val[i].field = f}) = 1

\* C9: a record of a type of VALIDATION_RULES with a status string gets an
\* invalid-status error naming the value exactly when the type has a
\* valid_status list and the value is not in it.
C9_StatusAgainstConfig ==
    \A T \in RuleTypes :
        OnType(T) /\ Has("status") /\ ~Falsy(Field("status")) =>
            /\ ~fn_result.raised
            /\ (\E e \in StatusErrors : e.value = Field("status"))
                  <=> (HasValidStatus(T) /\ ~InStrings(Field("status"), get_valid_status(T)))

----------------------------------------------------------------------------
(* Claims about get_nested_value, checked under SpecPath *)

\* The path starts with the tokens of prefix.
StartsWith(path, prefix) ==
    Len(path) >= Len(prefix) /\ SubSeq(path, 1, Len(prefix)) = prefix

\* The path holds the tokens of piece somewhere.
Holds(path, piece) == IsSubstring(piece, path)

\* The path has a segment that is not empty.
HasSegment(path) == \E i \in 1..Len(path) : path[i] \notin {".", "["}

\* The path has an empty segment: a leading or trailing dot, or two
\* separators in a row.
EmptySegment(path) ==
    /\ path # <<>>
    /\ \/ Head(path) = "."
       \/ path[Len(path)] = "."
       \/ \E i \in 1..Len(path) - 1 : path[i] \in {".", "["} /\ path[i + 1] \in {".", "["}

\* The path has a bracket that is not closed, or one that is not opened.
RECURSIVE Balanced(_, _)
Balanced(path, open) ==
    IF path = <<>> THEN ~open
    ELSE IF Head(path) = "[" THEN ~open /\ Balanced(Tail(path), TRUE)
    ELSE IF Head(path) = "]" THEN open /\ Balanced(Tail(path), FALSE)
    ELSE Balanced(Tail(path), open)

\* An index the sequences of ListData ("a": [], "b": ["x"]) do not have.
OutOfRange(path) ==
    \E prefix \in {<<"a", "[", "0", "]">>, <<"a", "[", "1", "]">>,
                    <<"a", "[", "-", "1", "]">>, <<"b", "[", "1", "]">>} :
        StartsWith(path, prefix)

\* The cases in which the call returns None whatever else the path holds.
NoneCases ==
    \/ Falsy(fn_args.data)
    \/ fn_args.path = <<>>
    \/ Holds(fn_args.path, <<"[", "x", "]">>)
    \/ fn_args.data = ListData /\ OutOfRange(fn_args.path)
    \/ fn_args.data.t \in {"num", "str", "bool"} /\ HasSegment(fn_args.path)
    \/ fn_args.data.t = "list" /\ Head(fn_args.path) \in {"a", "b"}

\* C10 as claimed: the call never raises, and returns None also for a path
\* with an empty segment or an unbalanced bracket.
C10_MalformedIsNone ==
    Returned =>
        /\ ~fn_result.raised
        /\ NoneCases \/ EmptySegment(fn_args.path) \/ ~Balanced(fn_args.path, FALSE)
              => fn_result.val = Null

\* C10 as amended: the call never raises; it returns None for a falsy record
\* or an empty path, a non-numeric or out-of-range index, a segment on a
\* scalar and a key on a sequence; an empty segment is skipped ("a..b" is
\* "a.b") and an unclosed bracket is a key ("a[0" is the key "0" of "a").
C10_NeverRaises ==
    Returned =>
        /\ ~fn_result.raised
        /\ NoneCases => fn_result.val = Null
        /\ fn_args.data = NestedData =>
              /\ fn_args.path = <<"a", ".", ".", "b">> => fn_result.val = Num(1)
              /\ fn_args.path = <<"a", "[", "0">> => fn_result.val = Num(5)

\* C10 witness: the index -1 of an empty sequence, which raises IndexError
\* inside the try block.
C10_Witness ==
    /\ Returned
    /\ fn_args.data = ListData
    /\ fn_args.path = <<"a", "[", "-", "1", "]">>
    /\ fn_result = Ret(Null)

\* The segments of a path: what lies between its dots.
RECURSIVE Segments(_, _)
Segments(path, acc) ==
    IF path = <<>> THEN <<acc>>
    ELSE IF Head(path) = "." THEN <<acc>> \o Segments(Tail(path), <<>>)
    ELSE Segments(Tail(path), Append(acc, Head(path)))

Special == {".", "[", "]", "-", " "}

\* A bare segment is one key; a bracketed segment is a key and one index
\* between brackets.
BareSegment(seg) == Len(seg) = 1 /\ seg[1] \notin Special
BracketedSegment(seg) ==
    /\ Len(seg) >= 4
    /\ seg[1] \notin Special /\ seg[2] = "[" /\ seg[Len(seg)] = "]"
    /\ \A i \in 3..Len(seg) - 1 : seg[i] \notin {"[", "]"}

WellFormed(path) ==
    /\ path # <<>>
    /\ \A i \in 1..Len(Segments(path, <<>>)) :
          \/ BareSegment(Segments(path, <<>>)[i])
          \/ BracketedSegment(Segments(path, <<>>)[i])

\* The value of a key lookup: absent (None) unless the value is a mapping.
AtKey(value, key) == IF value.t = "map" THEN DictGet(value.m, <<key>>) ELSE Null

\* The value at a position: absent unless the value is a sequence and the
\* index a non-negative integer below its length.
AtPosition(value, index) ==
    IF value.t = "list" /\ AllDigits(index) /\ DecimalValue(index) < Len(value.l)
    THEN value.l[DecimalValue(index) + 1]
    ELSE Null

AtSegment(value, seg) ==
    IF BareSegment(seg) THEN AtKey(value, seg[1])
    ELSE AtPosition(AtKey(value, seg[1]), SubSeq(seg, 3, Len(seg) - 1))

\* The walk segment by segment the claim describes.
RECURSIVE SegmentWalk(_, _)
SegmentWalk(value, segs) ==
    IF segs = <<>> THEN value
    ELSE SegmentWalk(AtSegment(value, Head(segs)), Tail(segs))

\* C11: on a well-formed path the call returns what the walk by segments
\* gives: the value at that position, and None where a key lookup meets a
\* value that is no mapping, an intermediate value is null, the bracketed
\* value is no sequence or the index is not a non-negative integer below
\* the length (a negative index included).
C11_WalkBySegments ==
    Returned /\ WellFormed(fn_args.path) =>
        fn_result = Ret(SegmentWalk(fn_args.data, Segments(fn_args.path, <<>>)))

----------------------------------------------------------------------------
(* Claims about extract_fields_from_resource, checked under SpecExtract *)

\* The call was given a record whose resourceType is a string.
OnTyped == OnRecord /\ Has("resourceType") /\ Field("resourceType").t = "str"

\* The keys "subject_reference" and "subject_display".
SubjectReference == <<"subject", "_", "reference">>
SubjectDisplay == <<"subject", "_", "display">>

\* C12: for a record whose subject is a mapping the output holds subject and
\* the derived keys subject_reference and subject_display, with the members
\* reference and display of subject.
C12_SubjectDerived ==
    OnTyped /\ Field("subject").t = "map" =>
        /\ ~fn_result.raised
        /\ {S("subject"), SubjectReference, SubjectDisplay}
              \subseteq DOMAIN fn_result.val.m
        /\ fn_result.val.m[SubjectReference] = DictGet(Field("subject").m, S("reference"))
        /\ fn_result.val.m[SubjectDisplay] = DictGet(Field("subject").m, S("display"))

\* The entry of EXTRACTION_CONFIG for the field is "all" or lists the type.
Configured(field, type) ==
    \E i \in 1..Len(EXTRACTION_CONFIG) :
        /\ EXTRACTION_CONFIG[i][1] = field
        /\ \/ EXTRACTION_CONFIG[i][2] = "all"
           \/ \E j \in 1..Len(EXTRACTION_CONFIG[i][2]) :
                 Str(EXTRACTION_CONFIG[i][2][j]) = type

DerivedKeys == {SubjectReference, SubjectDisplay}

\* C13: every key of the output that is not derived is a field configured
\* for the record's type; its value is the record's top-level value when the
\* record has the key, else the non-null value the field name resolves to as
\* a path; a configured field is in the output exactly when the record has
\* it in one of these two ways.
C13_ConfiguredFieldsOnly ==
    OnTyped =>
        /\ ~fn_result.raised
        /\ fn_result.val.t = "map"
        /\ \A k \in DOMAIN fn_result.val.m \ DerivedKeys :
              /\ Configured(k, Field("resourceType"))
              /\ fn_result.val.m[k] =
                    IF k \in DOMAIN fn_args.resource.m THEN fn_args.resource.m[k]
                    ELSE get_nested_value(fn_args.resource, k).val
              /\ k \notin DOMAIN fn_args.resource.m => fn_result.val.m[k] # Null
        /\ \A i \in 1..Len(EXTRACTION_CONFIG) :
              LET k == EXTRACTION_CONFIG[i][1] IN
              Configured(k, Field("resourceType")) =>
                 (k \in DOMAIN fn_result.val.m
                    <=> \/ k \in DOMAIN fn_args.resource.m
                        \/ get_nested_value(fn_args.resource, k).val # Null)

\* C13 witness: an Observation with a field of another type (performedDateTime),
\* an unconfigured one (note) and a null code; only its own fields came out.
C13_Witness ==
    /\ OnTyped
    /\ Field("resourceType") = Text("Observation")
    /\ Has("performedDateTime") /\ Has("note") /\ Has("effectiveDateTime")
    /\ Has("code") /\ Field("code") = Null
    /\ DOMAIN fn_result.val.m = {S("resourceType"), S("code"), S("effectiveDateTime")}

----------------------------------------------------------------------------
(* Claims about project_fields, checked under SpecProject *)

\* The requested names, trimmed, without the blank ones.
Requested == SelectSeq([i \in 1..Len(fn_args.fields_list.l) |->
                           StripText(fn_args.fields_list.l[i])],
                       LAMBDA f : f # <<>>)

\* The first occurrences of a sequence, in order.
RECURSIVE Distinct(_)
Distinct(seq) ==
    IF seq = <<>> THEN <<>>
    ELSE LET front == Distinct(SubSeq(seq, 1, Len(seq) - 1)) IN
         IF \E i \in 1..Len(front) : front[i] = seq[Len(seq)] THEN front
         ELSE Append(front, seq[Len(seq)])

\* The value the field resolves to by path.
ByPath(f) == get_nested_value(fn_args.resource_data, f).val

\* The field resolves to a non-null value or is a top-level key.
Found(f) == ByPath(f) # Null \/ f \in DOMAIN fn_args.resource_data.m

\* The call was given a non-empty record and a non-empty field list.
OnProjection ==
    /\ Returned
    /\ fn_args.resource_data.t = "map" /\ DOMAIN fn_args.resource_data.m # {}
    /\ fn_args.fields_list # Null /\ fn_args.fields_list.l # <<>>

\* C15: the projection of a non-empty record on a non-empty field list has
\* one key per distinct non-blank requested field that is found, trimmed and
\* in request order, and no other key; the value is the one resolved by path
\* when it is not null and the top-level value otherwise.
C15_ProjectionKeys ==
    OnProjection =>
        /\ ~fn_result.raised
        /\ fn_result.val.items =
              [i \in 1..Len(SelectSeq(Distinct(Requested), Found)) |->
                  LET f == SelectSeq(Distinct(Requested), Found)[i] IN
                  <<f, IF ByPath(f) # Null THEN ByPath(f)
                       ELSE fn_args.resource_data.m[f]>>]
        /\ fn_args = [resource_data |-> CodeOnly,
                      fields_list |-> List(<<<<"code", ".", "text">> >>)]
              => fn_result.val.items = << <<<<"code", ".", "text">>, Text("x")>> >>

\* C15 witness: a padded path, an explicit null, a repeated and a missing
\* field were requested.
C15_Witness ==
    /\ OnProjection
    /\ fn_args.resource_data = ProjectRecord
    /\ fn_args.fields_list = List(<< <<"note">>, <<" ", "code", ".", "text", " ">>,
                                     <<"code", ".", "text">> >>)
    /\ fn_result.val.items = << <<S("note"), Null>>, <<<<"code", ".", "text">>, Text("x")>> >>

\* The list is not empty and all its names are blank.
OnlyBlanks ==
    /\ fn_args.fields_list # Null
    /\ fn_args.fields_list.l # <<>>
    /\ \A i \in 1..Len(fn_args.fields_list.l) : StripText(fn_args.fields_list.l[i]) = <<>>

\* C16: without a field list, or with an empty one, the call returns the
\* record it was given, every key and value as it was; a list of blank names
\* only gives the empty mapping.
C16_IdentityProjection ==
    Returned =>
        /\ fn_args.fields_list \in {Null, List(<<>>)} => fn_result = Ret(fn_args.resource_data)
        /\ OnlyBlanks => fn_result = Ret(Projected(<<>>))

\* C16 witness: a record with four keys projected on the empty list.
C16_Witness ==
    /\ Returned
    /\ fn_args.fields_list = List(<<>>)
    /\ fn_args.resource_data = ProjectRecord
    /\ fn_result = Ret(ProjectRecord)

----------------------------------------------------------------------------
(* Claims about the transformer, checked under SpecTransform *)

OnFlatten == Returned /\ fn_args.fn = "flatten_field"
OnExtractAndRename == Returned /\ fn_args.fn = "extract_and_rename"
OnApply == Returned /\ fn_args.fn = "apply_transformations"

\* What a path resolves to in a record, by the walk of C11; a path that is
\* not well formed resolves to nothing.
Resolved(record, path) ==
    IF WellFormed(path) THEN SegmentWalk(record, Segments(path, <<>>)) ELSE Null

\* The key of the first segment of a well-formed path.
FirstKey(path) == <<Segments(path, <<>>)[1][1]>>

\* The record without the key of the first segment and with one key
\* <firstSegment>_<k> for every entry k of the mapping.
Flattened(record, path, mapping) ==
    [key \in (DOMAIN record \ {FirstKey(path)})
               \cup {FirstKey(path) \o <<"_">> \o k : k \in DOMAIN mapping} |->
        IF \E k \in DOMAIN mapping : FirstKey(path) \o <<"_">> \o k = key
        THEN mapping[CHOOSE k \in DOMAIN mapping : FirstKey(path) \o <<"_">> \o k = key]
        ELSE record[key]]

\* C18: flatten_field never raises; when a well-formed path resolves to a
\* mapping the result is the record without the key of the first segment
\* plus the prefixed entries of the mapping, and otherwise (a non-numeric or
\* out-of-range index included) the record unchanged.
C18_FlattenField ==
    OnFlatten =>
        /\ ~fn_result.raised
        /\ fn_args.obj.t # "map" => fn_result.val = fn_args.obj
        /\ fn_args.obj.t = "map" /\ WellFormed(fn_args.field_path) =>
              fn_result.val =
                 IF Resolved(fn_args.obj, fn_args.field_path).t = "map"
                 THEN Map(Flattened(fn_args.obj.m, fn_args.field_path,
                                    Resolved(fn_args.obj, fn_args.field_path).m))
                 ELSE fn_args.obj

\* The resources and the rules of the call, and the records it returned.
Resources == fn_args.resources
Rules == fn_args.transformations
Outputs == fn_result.val.l

IsRule(rule, action) ==
    /\ DictGet(rule.m, S("action")) = Text(action)
    /\ ~Falsy(DictGet(rule.m, S("field")))

FieldOf(rule) == rule.m[S("field")].s

\* The name an extract rule binds: its "as", else the last dot-separated
\* segment of its field.
BoundName(rule) ==
    IF S("as") \in DOMAIN rule.m THEN rule.m[S("as")].s
    ELSE Segments(FieldOf(rule), <<>>)[Len(Segments(FieldOf(rule), <<>>))]

\* What one rule binds when it reads the record: the prefixed keys of the
\* flattened record, or the resolved value under the bound name.
Binding(record, rule) ==
    IF IsRule(rule, "flatten")
    THEN LET flat == flatten_field(record, FieldOf(rule)).val.m
             prefix == Head(Segments(FieldOf(rule), <<>>)) \o <<"_">> IN
         [k \in {x \in DOMAIN flat : StartsWith(x, prefix)} |-> flat[k]]
    ELSE IF IsRule(rule, "extract")
    THEN BoundName(rule) :> get_nested_value(record, FieldOf(rule)).val
    ELSE <<>>

\* The working copy after the rules, every rule reading the source record
\* and a later binding replacing an earlier one of the same key.
RECURSIVE WorkingCopy(_, _)
WorkingCopy(record, rules) ==
    IF rules = <<>>
    THEN (S("id") :> DictGet(record.m, S("id"))) @@
         (S("resourceType") :> DictGet(record.m, S("resourceType")))
    ELSE Binding(record, rules[Len(rules)])
         @@ WorkingCopy(record, SubSeq(rules, 1, Len(rules) - 1))

\* A flatten rule of the call raises on one of its resources.
SomeFlattenRaises ==
    \E i \in 1..Len(Resources) : \E j \in 1..Len(Rules) :
        /\ IsRule(Rules[j], "flatten")
        /\ flatten_field(Resources[i], FieldOf(Rules[j])).raised

\* C17 as claimed: a rule reads what the rules before it produced: with two
\* rules, the second an extract rule on a key that the first rule alone
\* leaves in the output, the second binds the value of that key.
C17_RulesChain ==
    OnApply /\ Len(Resources) = 1 /\ Len(Rules) = 2 /\ IsRule(Rules[2], "extract")
            /\ ~apply_transformations(Resources, <<Rules[1]>>).raised
            /\ FieldOf(Rules[2])
                  \in DOMAIN apply_transformations(Resources, <<Rules[1]>>).val.l[1].m =>
        /\ ~fn_result.raised
        /\ Outputs[1].m[BoundName(Rules[2])] =
              apply_transformations(Resources, <<Rules[1]>>).val.l[1].m[FieldOf(Rules[2])]

\* C17 as amended: the rules are applied in the caller's order, each to the
\* source record and not to the output of the rule before it; the working
\* copy starts with id and resourceType and a later rule replaces what an
\* earlier one bound under the same key; the call raises exactly when a
\* flatten rule raises.
C17_RulesOnSourceInOrder ==
    OnApply =>
        /\ fn_result.raised <=> SomeFlattenRaises
        /\ ~fn_result.raised =>
              /\ Len(Outputs) = Len(Resources)
              /\ \A i \in 1..Len(Resources) :
                    Outputs[i].m = WorkingCopy(Resources[i], Rules)

\* C17 witness: after the flatten of code.coding[0] the extract rule on
\* code_system read the source record, found nothing and replaced the
\* flattened value.
C17_Witness ==
    /\ OnApply
    /\ Resources = <<Coded>>
    /\ Rules = <<Rule("flatten", <<"code", ".", "coding", "[", "0", "]">>),
                 Rule("extract", <<"code", "_", "system">>)>>
    /\ ~fn_result.raised
    /\ Outputs[1].m[<<"code", "_", "system">>] = Null
    /\ Outputs[1].m[<<"code", "_", "code">>] = Text("c")

\* No rule of the call after rule j binds the key that rule j binds.
LastToBind(j) ==
    \A k \in j + 1..Len(Rules) :
        /\ IsRule(Rules[k], "extract") => BoundName(Rules[k]) # BoundName(Rules[j])
        /\ IsRule(Rules[k], "flatten") =>
              ~StartsWith(BoundName(Rules[j]),
                          Head(Segments(FieldOf(Rules[k]), <<>>)) \o <<"_">>)

\* C19: extract_and_rename returns a mapping with the one key new_name,
\* bound to what the field resolves to, null or absent included; in
\* apply_transformations an extract rule binds that value under its "as", or
\* under the last dot-separated segment of its field when it has none.
C19_ExtractBinds ==
    /\ OnExtractAndRename =>
          /\ fn_result = Ret(Map(fn_args.new_name :>
                                   get_nested_value(fn_args.obj, fn_args.field_path).val))
          /\ WellFormed(fn_args.field_path) /\ ~Holds(fn_args.field_path, <<"-">>) =>
                fn_result.val.m[fn_args.new_name]
                   = SegmentWalk(fn_args.obj, Segments(fn_args.field_path, <<>>))
          /\ fn_args.obj = ValueOnly
                /\ fn_args.field_path = <<"valueQuantity", ".", "value">>
                /\ fn_args.new_name = S("value")
                => fn_result = Ret(Map(S("value") :> Num(120)))
    /\ OnApply /\ (\A j \in 1..Len(Rules) : ~IsRule(Rules[j], "flatten")) =>
          ~fn_result.raised
    /\ OnApply /\ ~fn_result.raised =>
          \A i \in 1..Len(Resources) : \A j \in 1..Len(Rules) :
              IsRule(Rules[j], "extract") /\ LastToBind(j) =>
                  /\ BoundName(Rules[j]) \in DOMAIN Outputs[i].m
                  /\ Outputs[i].m[BoundName(Rules[j])]
                        = get_nested_value(Resources[i], FieldOf(Rules[j])).val

\* C19 witness: an extract rule without "as" bound the last segment of its
\* field, and one on an absent field bound null under its "as".
C19_Witness ==
    /\ OnApply
    /\ Resources = <<Coded>>
    /\ Rules = <<Rule("extract", <<"code", ".", "coding", "[", "0", "]", ".", "system">>),
                 RuleAs("extract", <<"valueQuantity", ".", "unit">>, "value")>>
    /\ Outputs[1].m = (S("id") :> Num(1)) @@ (S("resourceType") :> Text("Observation")) @@
                      (S("system") :> Text("s")) @@ (S("value") :> Null)

\* The keys a rule is to bind: <firstSegment>_<k> for a flatten rule whose
\* path resolves to a mapping, the bound name for an extract rule.
KeysBound(record, rule) ==
    IF IsRule(rule, "flatten")
    THEN IF Resolved(record, FieldOf(rule)).t = "map"
         THEN {FirstKey(FieldOf(rule)) \o <<"_">> \o k :
                  k \in DOMAIN Resolved(record, FieldOf(rule)).m}
         ELSE {}
    ELSE IF IsRule(rule, "extract") THEN {BoundName(rule)}
    ELSE {}

\* C20: the call returns one output per input, in input order, and the keys
\* of an output are id, resourceType and the keys its rules bind, no other
\* key of the input and nothing for a flatten rule whose path does not
\* resolve to a mapping.
C20_OutputKeys ==
    OnApply =>
        /\ ~fn_result.raised
        /\ Len(Outputs) = Len(Resources)
        /\ \A i \in 1..Len(Resources) :
              DOMAIN Outputs[i].m =
                 {S("id"), S("resourceType")}
                 \cup UNION {KeysBound(Resources[i], Rules[j]) : j \in 1..Len(Rules)}

----------------------------------------------------------------------------
(* Claims about the lines of one import, checked under SpecImport *)

OnParse == fn_pc = "returned" /\ fn_args.fn = "parse_jsonl_file"
OnImport == fn_pc = "returned" /\ fn_args.fn = "import_fhir_data"
OnStatistics == fn_pc = "returned" /\ fn_args.fn = "statistics"

\* The import went through its loop.
Imported == OnImport /\ ~fn_result.raised

Locals == fn_result.val.locals
Batch == fn_result.val.locals.resources_to_save
Errors == fn_result.val.locals.validation_errors
Warnings == fn_result.val.warnings

\* The lines of the input that reached the loop, with their numbers.
Yielded == parse_jsonl_file(fn_args.content)

\* The entries of the error list, of the warnings and of the batch that a
\* yielded line accounts for.
ErrorsAt(n) == {i \in 1..Len(Errors) : Errors[i].line_number = n}
WarningsAt(n) == {i \in 1..Len(Warnings) : Warnings[i].m[<<"line", "_", "number">>] = Num(n)}
InBatch(record) == \E i \in 1..Len(Batch) : Batch[i].raw_data = record

\* A record that lacks id and would pass validation with one.
ValidButForId(record) ==
    /\ record.t = "map"
    /\ S("id") \notin DOMAIN record.m
    /\ validate_resource(Map(DictSet(record.m, S("id"), Text("x"))), 1) = Ret(<<>>)

\* C21: a line whose record has no id but is otherwise valid is imported:
\* it is in the batch, no error entry names it, and its identifier is
\* unknown-<line number>.
C21_NoIdImported ==
    Imported =>
        \A i \in 1..Len(Yielded) :
            ValidButForId(Yielded[i].parsed_json) =>
                /\ ErrorsAt(Yielded[i].line_number) = {}
                /\ InBatch(Yielded[i].parsed_json)
                /\ process_resource(Yielded[i].parsed_json, Yielded[i].line_number).val.resource_id
                      = Str(<<"unknown", "-">> \o DecimalText(Yielded[i].line_number))

\* The yielded lines that parsed to one of the given values.
ParsedTo(values) ==
    {i \in 1..Len(Yielded) :
        Falsy(Yielded[i].parse_error) /\ Yielded[i].parsed_json \in values}

\* The lines parsed to one of the values leave no trace but in total_lines.
Skipped(values) ==
    /\ \A i \in ParsedTo(values) :
          /\ ErrorsAt(Yielded[i].line_number) = {}
          /\ WarningsAt(Yielded[i].line_number) = {}
          /\ ~InBatch(Yielded[i].parsed_json)
    /\ Locals.successful + Locals.failed = Len(Yielded) - Cardinality(ParsedTo(values))
    /\ Locals.successful = Len(Batch)
    /\ Locals.failed = Len(Errors)

\* C22 as stated: a line that parses to null or to an empty object is
\* skipped: neither successful nor failed, no error entry, no record, no
\* warning.
C22_NullOrEmptySkipped == Imported => Skipped({Null, EmptyMap})

\* The three errors of a record without id, resourceType and subject.
ThreeMissing(n) == <<
    MissingError(n, "", S("id")),
    MissingError(n, "", S("resourceType")),
    MissingError(n, "", S("subject"))>>

\* C22, amended: a line that parses to null is skipped and counted in
\* total_lines only; a line that parses to an empty object is a failure, with
\* one validation_error entry that lists the three missing universal fields.
C22_NullSkipped ==
    Imported =>
        /\ Skipped({Null})
        /\ Locals.total_lines = Len(Yielded)
        /\ \A i \in ParsedTo({EmptyMap}) :
              \E k \in 1..Len(Errors) :
                  /\ ErrorsAt(Yielded[i].line_number) = {k}
                  /\ Errors[k] = ValidationErrorEntry(Yielded[i].line_number,
                                                      ThreeMissing(Yielded[i].line_number))

\* C22 witness: a null line before a valid record, and an empty object.
C22_Witness ==
    /\ Imported
    /\ \/ /\ fn_args.content = <<JsonLine(Null), JsonLine(ObservationA)>>
          /\ Locals.total_lines = 2 /\ Locals.successful = 1 /\ Locals.failed = 0
          /\ Errors = <<>>
       \/ /\ fn_args.content = <<JsonLine(Null), JsonLine(EmptyMap)>>
          /\ Locals.total_lines = 2 /\ Locals.successful = 0 /\ Locals.failed = 1

\* The record of a yielded line is of type T.
IsType(record, T) ==
    record.t = "map" /\ DictGet(record.m, S("resourceType")) = Text(T)

\* The yielded line was imported: its record is in the batch.
Successful(i) ==
    /\ Falsy(Yielded[i].parse_error)
    /\ Yielded[i].parsed_json # Null
    /\ InBatch(Yielded[i].parsed_json)

\* The warnings hold one warning about the field for line n when the record
\* lacks the field, and none for line n when it has it.
WarnedIffLacks(record, n, field) ==
    IF S(field) \in DOMAIN record.m THEN WarningsAt(n) = {}
    ELSE \E k \in 1..Len(Warnings) :
            WarningsAt(n) = {k} /\ Warnings[k].m[S("field")] = Text(field)

\* C23: a successfully imported observation has exactly one warning when it
\* has no effectiveDateTime and none when it has one; the same holds of a
\* medication request and authoredOn; a failed or skipped line has no
\* warning, and every warning is about a yielded line.
C23_OptionalFieldWarnings ==
    Imported =>
        /\ \A i \in 1..Len(Yielded) :
              /\ Successful(i) /\ IsType(Yielded[i].parsed_json, "Observation") =>
                    WarnedIffLacks(Yielded[i].parsed_json, Yielded[i].line_number,
                                   "effectiveDateTime")
              /\ Successful(i) /\ IsType(Yielded[i].parsed_json, "MedicationRequest") =>
                    WarnedIffLacks(Yielded[i].parsed_json, Yielded[i].line_number,
                                   "authoredOn")
              /\ ~Successful(i) => WarningsAt(Yielded[i].line_number) = {}
        /\ \A k \in 1..Len(Warnings) :
              \E i \in 1..Len(Yielded) : k \in WarningsAt(Yielded[i].line_number)

\* C23 witness: an observation without effectiveDateTime and a medication
\* request with authoredOn give the one warning of line 1.
C23_Witness ==
    /\ Imported
    /\ fn_args.content = <<JsonLine(ObservationA), JsonLine(MedicationDated)>>
    /\ Warnings = <<MissingFieldWarning(1, S("effectiveDateTime"))>>

\* The sum of the values of a dict of counts.
RECURSIVE SumCounts(_)
SumCounts(counts) ==
    IF DOMAIN counts = {} THEN 0
    ELSE LET k == CHOOSE x \in DOMAIN counts : TRUE IN
         counts[k] + SumCounts([x \in DOMAIN counts \ {k} |-> counts[x]])

\* The input without its outer blank lines, every failed line replaced by a
\* line that holds null: the other lines keep their numbers.
FailedLinesOut ==
    [n \in DOMAIN StripContent(fn_args.content) |->
        IF ErrorsAt(n) # {} THEN JsonLine(Null) ELSE StripContent(fn_args.content)[n]]

\* The two locals agree on the counts, the patients, the warnings and the batch.
SameSuccesses(L, M) ==
    /\ L.successful = M.successful
    /\ L.resource_type_counts = M.resource_type_counts
    /\ L.unique_patients = M.unique_patients
    /\ L.missing_optional_fields = M.missing_optional_fields
    /\ L.resources_to_save = M.resources_to_save

\* The list of references has min(unique_patients, 100) entries, all of them
\* patients of the run.
ReferencesLimited(statistics, patients) ==
    /\ statistics.unique_patients = Cardinality(patients)
    /\ statistics.unique_patient_references \subseteq patients
    /\ Cardinality(statistics.unique_patient_references)
          = IF statistics.unique_patients < 100 THEN statistics.unique_patients ELSE 100

\* C27: at the end of the loop the per-type counts sum to successful, which
\* is the length of the batch; unique_patients <= successful; the list of
\* references has min(unique_patients, 100) entries; every failed line has
\* one entry of one of the three error types, and the counts, the patients,
\* the warnings and the batch are those of the input without the failed lines.
C27_SuccessesOnly ==
    /\ Imported =>
          /\ SumCounts(fn_result.val.statistics.resource_types) = Locals.successful
          /\ Locals.successful = Len(Batch)
          /\ fn_result.val.statistics.unique_patients <= Locals.successful
          /\ ReferencesLimited(fn_result.val.statistics, Locals.unique_patients)
          /\ \A k \in 1..Len(Errors) :
                Errors[k].type \in {"parse_error", "validation_error", "processing_error"}
          /\ SameSuccesses(Locals,
                ImportLoop(parse_jsonl_file(FailedLinesOut), InitialLocals).val)
    /\ OnStatistics => ReferencesLimited(fn_result.val, fn_args.unique_patients)

\* C27 witness: a processing_error after a success left the counts, the
\* patients and the batch of the success alone.
C27_Witness ==
    /\ Imported
    /\ fn_args.content = <<JsonLine(ObservationA), JsonLine(ListType)>>
    /\ Locals.successful = 1 /\ Locals.failed = 1
    /\ Errors[1].type = "processing_error"
    /\ fn_result.val.statistics.resource_types = (Text("Observation") :> 1)
    /\ fn_result.val.statistics.unique_patient_references = {Text("P1")}
    /\ Len(Batch) = 1

\* The line of the input at position n is the one a yielded tuple reports.
LineAt(n, y) ==
    /\ n \in 1..Len(fn_args.content)
    /\ \/ /\ fn_args.content[n] = MalformedLine
          /\ ~Falsy(y.parse_error)
       \/ /\ fn_args.content[n] = JsonLine(y.parsed_json)
          /\ Falsy(y.parse_error)

\* C28: every line_number that parse_jsonl_file yields is the 1-based
\* position of its line in the input, blank lines counted, and so is every
\* line number of an error entry or of a warning.
C28_LineNumbers ==
    /\ OnParse =>
          \A i \in 1..Len(fn_result.val) :
              LineAt(fn_result.val[i].line_number, fn_result.val[i])
    /\ Imported =>
          /\ \A k \in 1..Len(Errors) :
                /\ Errors[k].line_number \in 1..Len(fn_args.content)
                /\ fn_args.content[Errors[k].line_number] # BlankLine
                /\ Errors[k].type = "parse_error"
                      <=> fn_args.content[Errors[k].line_number] = MalformedLine
          /\ \A i \in 1..Len(Yielded) :
                \A k \in WarningsAt(Yielded[i].line_number) :
                    fn_args.content[Yielded[i].line_number] = JsonLine(Yielded[i].parsed_json)

OnRoute == fn_pc = "returned" /\ fn_args.fn = "route"

\* C29: on every input the route handler ends as the service does: both
\* raise or both return, and then with the same counts, error list,
\* statistics, warnings and rows.
C29_RouteAgrees ==
    OnRoute =>
        /\ fn_result.raised
              = ImportLoop(parse_jsonl_file(fn_args.content), InitialLocals).raised
        /\ ~fn_result.raised =>
              Locals = ImportLoop(parse_jsonl_file(fn_args.content), InitialLocals).val

----------------------------------------------------------------------------
(* Claims about the stored rows, checked under Spec *)

\* What holds of a stored row: raw_data is the record of a line of the run
\* that wrote it, it passed validation, and the other columns derive from it.
RowDerived(row) ==
    /\ \E i \in 1..Len(run[row.by].content) : run[row.by].content[i] = JsonLine(row.raw_data)
    /\ row.raw_data.t = "map"
    /\ {S("id"), S("resourceType"), S("subject")} \subseteq DOMAIN row.raw_data.m
    /\ validate_resource(row.raw_data, 1) = Ret(<<>>)
    /\ row.resource_type = row.raw_data.m[S("resourceType")]
    /\ row.extracted_fields = extract_fields_from_resource(row.raw_data).val
    /\ \A k \in DOMAIN row.extracted_fields.m :
          k \in DOMAIN row.raw_data.m /\ row.extracted_fields.m[k] = row.raw_data.m[k]
    /\ row.subject_reference
          = SegmentWalk(row.raw_data, Segments(<<"subject", ".", "reference">>, <<>>))

\* A step keeps every row that was there, unchanged.
RowsOnlyAppended ==
    /\ Len(store') >= Len(store)
    /\ \A i \in 1..Len(store) : store'[i] = store[i]

\* C26: every stored row holds the record of a line that passed validation,
\* with resource_type, extracted_fields and subject_reference derived from
\* it (subject_reference null when the record has no subject.reference), and
\* no step changes a row that is there.
C26_RowsDerived == [](\A i \in 1..Len(store) : RowDerived(store[i])) /\ [][RowsOnlyAppended]_vars

\* C26 witness: both runs have rows in the table, one of them with a null
\* subject_reference.
C26_Witness ==
    /\ Len(store) >= 2
    /\ store[1].by # store[Len(store)].by
    /\ \E i \in 1..Len(store) :
          store[i].subject_reference = Null /\ store[i].raw_data = ConditionA
    /\ \E i \in 1..Len(store) : store[i].subject_reference = Str(<<"Patient", "/", "P1">>)

\* C30: a run that ended in failure left the table of records as it was:
\* none of its rows is there; and the rows of a run that has ended are never
\* there without its ImportLog.
C30_FailedRunLeavesStore ==
    \A r \in Runs :
        /\ run[r].pc = "failed" => RowsBy(r) = <<>>
        /\ run[r].pc \in {"failed", "done"} /\ RowsBy(r) # <<>> => LogsBy(r) # <<>>

----------------------------------------------------------------------------
(* Claims about the analytics queries, checked under SpecAnalytics *)

OnSummary == fn_pc = "returned" /\ fn_args.fn = "get_validation_error_summary"
OnMissing == fn_pc = "returned" /\ fn_args.fn = "get_missing_fields_statistics"

\* The logs with fewer than 10 logs later than them.
RecentIds ==
    {i \in 1..Len(logs) :
        Cardinality({j \in 1..Len(logs) : logs[j].imported_at > logs[i].imported_at}) < 10}

EntriesOf(log) == IF log.errors = Null THEN 0 ELSE Len(log.errors.l)

RECURSIVE SumEntries(_)
SumEntries(ids) ==
    IF ids = {} THEN 0
    ELSE EntriesOf(logs[CHOOSE i \in ids : TRUE])
         + SumEntries(ids \ {CHOOSE i \in ids : TRUE})

RECURSIVE SumPairs(_)
SumPairs(pairs) == IF pairs = <<>> THEN 0 ELSE Head(pairs)[2] + SumPairs(Tail(pairs))

AllFields == {EXTRACTION_CONFIG[i][1] : i \in 1..Len(EXTRACTION_CONFIG)}
ConfigIndex(f) == CHOOSE i \in 1..Len(EXTRACTION_CONFIG) : EXTRACTION_CONFIG[i][1] = f

\* The type of the stored record i expects the field f, and its extracted
\* fields lack it or hold null for it.
Lacks(i, f) ==
    /\ Configured(f, store[i].resource_type)
    /\ \/ f \notin DOMAIN store[i].extracted_fields.m
       \/ store[i].extracted_fields.m[f] = Null

MissingCount(f) == Cardinality({i \in 1..Len(store) : Lacks(i, f)})
Missed == {f \in AllFields : MissingCount(f) > 0}
FirstRow(f) == CHOOSE i \in 1..Len(store) : Lacks(i, f) /\ \A j \in 1..i - 1 : ~Lacks(j, f)

\* The loop meets the missed field f before the missed field g.
Earlier(f, g) ==
    \/ FirstRow(f) < FirstRow(g)
    \/ FirstRow(f) = FirstRow(g) /\ ConfigIndex(f) < ConfigIndex(g)

Pairs == fn_result.val
InPairs(f) == \E k \in 1..Len(Pairs) : Pairs[k][1] = f

\* At most five pairs of a missed field and its count, the most missed
\* first, equal counts in the order the fields were met; a field left out was
\* missed no more often than the fifth, and met later if as often.
TopFiveOrdered ==
    /\ Len(Pairs) <= 5
    /\ \A k \in 1..Len(Pairs) :
          /\ Pairs[k][1] \in Missed
          /\ Pairs[k][2] = MissingCount(Pairs[k][1])
    /\ \A k, l \in 1..Len(Pairs) :
          k < l => /\ Pairs[k][1] # Pairs[l][1]
                   /\ Pairs[k][2] >= Pairs[l][2]
                   /\ Pairs[k][2] = Pairs[l][2] => Earlier(Pairs[k][1], Pairs[l][1])
    /\ \A f \in Missed :
          ~InPairs(f) =>
              /\ Len(Pairs) = 5
              /\ \/ MissingCount(f) < Pairs[5][2]
                 \/ MissingCount(f) = Pairs[5][2] /\ Earlier(Pairs[5][1], f)

\* 45 observations lack effectiveDateTime (no other type expects it).
FortyFiveUndated ==
    Cardinality({i \in 1..Len(store) :
        store[i].resource_type = Text("Observation")
        /\ Lacks(i, S("effectiveDateTime"))}) = 45

UndatedFirst == Pairs # <<>> /\ Pairs[1] = <<S("effectiveDateTime"), 45>>

\* C24 as stated: get_missing_fields_statistics returns at most five
\* (field, count) pairs in non-increasing order of count, ties in order of
\* first encounter, the count being the number of stored records whose type
\* expects the field and whose extracted fields lack it or hold null for it;
\* and for every corpus in which 45 observations lack effectiveDateTime and no
\* other field is missing more often, effectiveDateTime is the first pair
\* with count 45.
C24_MostMissedFirst ==
    OnMissing =>
        /\ TopFiveOrdered
        /\ (FortyFiveUndated
              /\ \A f \in AllFields \ {S("effectiveDateTime")} : MissingCount(f) <= 45)
            => UndatedFirst

\* C24, amended: the same pairs; and for every corpus in which 45
\* observations lack effectiveDateTime and every other field is missing less
\* often, or as often but first met later, effectiveDateTime is the first
\* pair with count 45.
C24_MostMissedFirstUntied ==
    OnMissing =>
        /\ TopFiveOrdered
        /\ (FortyFiveUndated
              /\ \A f \in AllFields \ {S("effectiveDateTime")} :
                    \/ MissingCount(f) < 45
                    \/ MissingCount(f) = 45 /\ Earlier(S("effectiveDateTime"), f))
            => UndatedFirst

\* C24 witness: a condition without code, then 45 observations without
\* effectiveDateTime: code was met first and is missing once, and
\* effectiveDateTime is the first pair, before valueQuantity with the same
\* count.
C24_Witness ==
    /\ OnMissing
    /\ Len(store) = 46
    /\ store[1].resource_type = Text("Condition")
    /\ FortyFiveUndated
    /\ MissingCount(S("code")) = 1
    /\ Pairs[1] = <<S("effectiveDateTime"), 45>>
    /\ Pairs[2] = <<S("valueQuantity"), 45>>
    /\ Len(Pairs) = 5

====
